---- MODULE Spec2Model ----
(***************************************************************************)
(* Model of the policy_inspector shadowing analysis:                       *)
(*   - policy_inspector/resolver.py          Resolver                      *)
(*   - policy_inspector/model/*.py           address objects, rules        *)
(*   - policy_inspector/scenario/base.py     Scenario.run_checks           *)
(*   - policy_inspector/scenario/shadowing.py  predicates, Shadowing       *)
(*   - policy_inspector/scenario/advanced_shadowing.py  ShadowingByValue   *)
(*                                                                         *)
(* Python values are represented as follows.                               *)
(*   set[str]        a sequence without repetitions: the elements in the   *)
(*                   order in which this set object iterates.  The order   *)
(*                   of a set of strings is not fixed by the language, so  *)
(*                   every order is drawn where a set is created.          *)
(*   dict            a sequence of <<key, value>> pairs in insertion order *)
(*                   (the cache, whose order is never observed, is a       *)
(*                   function).                                            *)
(*   Optional[x]     <<>> for None, <<x>> for a value.                     *)
(*   IPv4Address     the offset of the address within 10.0.0.0/24.         *)
(***************************************************************************)
EXTENDS Integers, Sequences, FiniteSets, TLC

VARIABLES
    address_objects,    \* Resolver.address_objects: name -> AddressObject
    address_groups,     \* Resolver.address_groups: name -> members (a set)
    cache,              \* Resolver.cache: name -> list of AddressObject
    returned,           \* the Resolver.resolve calls made, with what each
                        \* returned or raised, in call order
    mode,               \* "resolver" | "simple" | "advanced": object in use
    input_rules,        \* the list of SecurityRule handed to the scenario
    pc,                 \* "loaded" | "constructed" | "failed"
    security_rules,     \* Shadowing.security_rules
    rules_by_name,      \* Shadowing.rules_by_name
    execution_results,  \* Shadowing.execution_results (Optional)
    analysis_results,   \* Shadowing.analysis_results (Optional)
    analyzed,           \* the results handed to the latest analyze (Optional)
    construct_error,    \* the exception that left __init__ (Optional)
    call,               \* the function call under study and its arguments
                        \* (Optional), where one function is studied alone
    call_result         \* what that call returned or raised (Optional)

vars == <<address_objects, address_groups, cache, returned, mode,
          input_rules, pc, security_rules, rules_by_name, execution_results,
          analysis_results, analyzed, construct_error, call,
          call_result>>

resolverVars == <<address_objects, address_groups, cache, returned>>
scenarioVars == <<input_rules, pc, security_rules, rules_by_name,
                  execution_results, analysis_results, analyzed,
                  construct_error>>
callVars == <<call, call_result>>

----------------------------------------------------------------------------
(* Bounds of the model.                                                    *)

MaxMembers == 2     \* members of one address group
MaxEdges == 4       \* members of all address groups together
MaxCalls == 2       \* Resolver.resolve calls in one run
MaxNames == 1       \* names handed to one Resolver.resolve call
MaxRules == 3       \* rules in one rule list
MaxAddresses == 2   \* names in one address set of a resolved rule pair
MaxKeywords == 2    \* keywords in one exclusion list
MaxParts == 3       \* elements of a tuple handed to AddressObjectIPRange
RecursionLimit == 6 \* frames of _resolve_name the interpreter allows
MaxOps == 4         \* calls made on one unified Scenario
MaxLookupNames == 2 \* names handed to one AddressLookup.resolve call

----------------------------------------------------------------------------
(* Generic helpers.                                                        *)

None == <<>>
Some(x) == <<x>>

Range(s) == {s[i] : i \in 1..Len(s)}

\* The sequences over S without repetitions, of length at most n: the
\* possible iteration orders of the sets over S with at most n elements.
SetOrders(S, n) ==
    UNION {{s \in [1..k -> S] : \A i, j \in 1..k : s[i] = s[j] => i = j}
           : k \in 0..n}

----------------------------------------------------------------------------
(* Address model: policy_inspector/model/base.py, address_object.py.       *)

AnyObj == "any"

\* ipaddress.IPv4Address(s): the address, or -1 for AddressValueError.
IPv4Address(s) ==
    CASE s = "10.0.0.1" -> 1
      [] s = "10.0.0.2" -> 2
      [] s = "10.0.0.5" -> 5
      [] OTHER -> -1

\* The text of a network literal: <<address, prefix length>>, or <<>> when
\* the text is no address with an optional /prefix.
NetworkText(s) ==
    CASE s = "10.0.0.1" -> <<1, 32>>
      [] s = "10.0.0.1/32" -> <<1, 32>>
      [] s = "10.0.0.5/30" -> <<5, 30>>
      [] s = "10.0.0.1/31" -> <<1, 31>>
      [] s = "10.0.0.1/30" -> <<1, 30>>
      [] OTHER -> <<>>

Pow2(n) == 2 ^ n

MaskedNot(address, size) == [lo |-> address, hi |-> address + size - 1]

\* The network of size addresses that holds address: host bits masked off.
Masked(address, size) ==
    [lo |-> address - (address % size),
     hi |-> address - (address % size) + size - 1]

\* The network of <<address, prefix length>>; None for no such text.
NetworkOf(text) ==
    IF text = <<>> THEN None
    ELSE Some(Masked(text[1], Pow2(32 - text[2])))

\* ipaddress.IPv4Network(v, strict=False): host bits are masked off.
\* [lo, hi] are network_address and broadcast_address; <<>> for ValueError.
IPv4Network(v) == NetworkOf(NetworkText(v))

\* str.split("-")
SplitDash(v) ==
    CASE v = "10.0.0.1-10.0.0.2" -> <<"10.0.0.1", "10.0.0.2">>
      [] v = "10.0.0.2-10.0.0.1" -> <<"10.0.0.2", "10.0.0.1">>
      [] v = "10.0.0.1-10.0.0.1" -> <<"10.0.0.1", "10.0.0.1">>
      [] v = "10.0.0.2-10.0.0.2" -> <<"10.0.0.2", "10.0.0.2">>
      [] v = "10.0.0.1-20.0.0.100.1" -> <<"10.0.0.1", "20.0.0.100.1">>
      [] OTHER -> <<v>>

\* AddressObjectIPNetwork(name=, value=): Some(object), or None when the
\* validator convert raises ValueError.
AddressObjectIPNetwork(name, value) ==
    [i \in 1..Len(IPv4Network(value)) |->
        [name |-> name, type |-> "IPNetwork",
         lo |-> IPv4Network(value)[i].lo,
         hi |-> IPv4Network(value)[i].hi, fqdn |-> ""]]

RangeCheckStrict(lo, hi) == lo < hi

\* AddressObjectIPRange.check: the pair is kept unless low > high.
RangeCheck(lo, hi) == ~(lo > hi)

\* AddressObjectIPRange(name=, value=<str>): convert splits at "-" and maps
\* IPv4Address over the parts (the field is a pair); check rejects low > high.
RangeOf(name, lo, hi) ==
    IF lo < 0 THEN None
    ELSE IF hi < 0 THEN None
    ELSE IF ~RangeCheck(lo, hi) THEN None
    ELSE Some([name |-> name, type |-> "IPRange", lo |-> lo, hi |-> hi,
               fqdn |-> ""])

RangeOfParts(name, parts) ==
    IF Len(parts) # 2 THEN None
    ELSE RangeOf(name, IPv4Address(parts[1]), IPv4Address(parts[2]))

AddressObjectIPRange(name, value) == RangeOfParts(name, SplitDash(value))

\* AddressObjectFQDN(name=, value=) for a value the regex accepts once
\* lower-cased.
AddressObjectFQDN(name, lowered) ==
    [name |-> name, type |-> "FQDN", lo |-> 0, hi |-> 0, fqdn |-> lowered]

\* str(address) of an IPv4Address
AddressText(address) ==
    CASE address = 1 -> "10.0.0.1"
      [] address = 2 -> "10.0.0.2"
      [] address = 5 -> "10.0.0.5"
      [] OTHER -> ""

\* IPv4Address(x) for an element of a tuple, a str (text) or an
\* IPv4Address (address): what is no int and no bytes is parsed from its
\* str().
IPv4AddressOf(x) ==
    IF x.type = "str" THEN IPv4Address(x.text)
    ELSE IPv4Address(AddressText(x.address))

\* AddressObjectIPRange.convert: a str is split at "-", and IPv4Address is
\* mapped over the parts of a str or the elements of a tuple (-1 for a
\* part it refuses); any other value is returned as it is, and is no
\* pair for the type of the field.
convert(v) ==
    CASE v.kind = "str" ->
           [i \in 1..Len(SplitDash(v.text)) |->
               IPv4Address(SplitDash(v.text)[i])]
      [] v.kind = "tuple" ->
           [i \in 1..Len(v.elements) |-> IPv4AddressOf(v.elements[i])]
      [] OTHER -> <<>>

\* The field type tuple[IPv4Address, IPv4Address] and the validator check
\* on what convert returned.
RangeOfAddresses(name, addresses) ==
    IF \E i \in 1..Len(addresses) : addresses[i] < 0 THEN None
    ELSE IF Len(addresses) # 2 THEN None
    ELSE RangeOf(name, addresses[1], addresses[2])

\* AddressObjectIPRange(name=, value=) for a str, a tuple or another value:
\* Some(object), or None when validation fails.
AddressObjectIPRangeOf(name, v) == RangeOfAddresses(name, convert(v))

\* str.lower()
Lower(s) ==
    CASE s = "Example.COM" -> "example.com"
      [] s = "EXAMPLE.ORG" -> "example.org"
      [] OTHER -> s

\* re.match(fqdn_regex, v) on the texts used here
FqdnMatch(v) == v \in {"example.com", "example.org"}

\* AddressObjectFQDN(name=, value=): validate lower-cases the value and
\* raises ValueError unless the regex matches.
AddressObjectFQDNOf(name, value) ==
    IF FqdnMatch(Lower(value))
    THEN Some(AddressObjectFQDN(name, Lower(value)))
    ELSE None

----------------------------------------------------------------------------
(* Resolver: policy_inspector/resolver.py.                                 *)

\* A normal return of _resolve_name with the cache as it then is.
Return(resolved, c) ==
    [ok |-> TRUE, res |-> resolved, cache |-> c, kind |-> "return",
     path |-> {}, name |-> ""]

\* raise CircularDependencyError(f"...{' -> '.join(path)} -> {name}")
RaiseCircular(path, name, c) ==
    [ok |-> FALSE, res |-> <<>>, cache |-> c,
     kind |-> "CircularDependencyError", path |-> path, name |-> name]

RaiseUnknownSwallowed(name, c) == Return(<<>>, c)

\* raise ValueError(f"Unknown address object/group: {name}") from ex
RaiseUnknown(name, c) ==
    [ok |-> FALSE, res |-> <<>>, cache |-> c,
     kind |-> "UnknownReference", path |-> {}, name |-> name]

OnPathOrSeen(name, path) == name \in path \/ name \in DOMAIN cache

\* if name in path
OnPath(name, path) == name \in path

NewPathForgets(path, name) == {name}

\* new_path = path | {name}
NewPath(path, name) == path \cup {name}

ExtendReplaces(resolved, more) == more

\* resolved.extend(more) / result.extend(more)
Extend(resolved, more) == resolved \o more

CacheStoreUnfilled(c, name, resolved) ==
    [n \in DOMAIN c \cup {name} |-> IF n = name THEN <<>> ELSE c[n]]

\* self.cache[name] = resolved
CacheStore(c, name, resolved) ==
    [n \in DOMAIN c \cup {name} |-> IF n = name THEN resolved ELSE c[n]]

RECURSIVE resolve_name(_, _, _)
RECURSIVE resolve_members(_, _, _, _, _)
RECURSIVE resolve_members_next(_, _, _, _, _)

\* The loop of the first try block: for member in self.address_groups[name].
resolve_members(members, i, new_path, c, resolved) ==
    IF i > Len(members) THEN Return(resolved, c)
    ELSE resolve_members_next(members, i, new_path, resolved,
                              resolve_name(members[i], new_path, c))

\* resolved.extend(<the nested call r>): its exception leaves the loop,
\* the cache being as the nested calls left it.
resolve_members_next(members, i, new_path, resolved, r) ==
    IF r.ok
    THEN resolve_members(members, i + 1, new_path, r.cache,
                         Extend(resolved, r.res))
    ELSE r

resolve_group_end_always(name, r) ==
    [r EXCEPT !.cache = CacheStore(r.cache, name, r.res)]

\* The end of the first try block, the loop having ended as r:
\* self.cache[name] = resolved; return resolved
resolve_group_end(name, r) ==
    IF r.ok THEN Return(r.res, CacheStore(r.cache, name, r.res)) ELSE r

\* self.cache[name] = resolved; return resolved
store_and_return(name, resolved, c) ==
    Return(resolved, CacheStore(c, name, resolved))

\* The last two try blocks, given what the two constructors give for name.
resolve_literal(name, c, network, range) ==
    IF network # None THEN store_and_return(name, network, c)
    ELSE IF range # None THEN store_and_return(name, range, c)
    ELSE RaiseUnknown(name, c)

\* Resolver._resolve_name(name, path) on the cache c.
resolve_name(name, path, c) ==
    IF name = AnyObj THEN Return(<<>>, c)
    ELSE IF OnPath(name, path) THEN RaiseCircular(path, name, c)
    ELSE IF name \in DOMAIN c THEN Return(c[name], c)
    ELSE IF name \in DOMAIN address_groups
    THEN resolve_group_end(name,
             resolve_members(address_groups[name], 1, NewPath(path, name),
                             c, <<>>))
    ELSE IF name \in DOMAIN address_objects
    THEN store_and_return(name, <<address_objects[name]>>, c)
    ELSE resolve_literal(name, c, AddressObjectIPNetwork(name, name),
                         AddressObjectIPRange(name, name))

RECURSIVE resolve_from(_, _, _, _)
RECURSIVE resolve_next(_, _, _, _)
\* The loop of Resolver.resolve from the i-th name on.
resolve_from(names, i, c, result) ==
    IF i > Len(names) THEN Return(result, c)
    ELSE resolve_next(names, i, result, resolve_name(names[i], {}, c))

\* result.extend(<the call r>)
resolve_next(names, i, result, r) ==
    IF r.ok THEN resolve_from(names, i + 1, r.cache, Extend(result, r.res))
    ELSE r

\* Resolver.resolve(names) on the cache c.
resolve(names, c) == resolve_from(names, 1, c, <<>>)

MessageNamesOnlyRepeated(joined, name) == <<name>>

\* The names in the text of the circular-dependency message, in the order
\* of the text: ' -> '.join(path) followed by name.
MessageNames(joined, name) == Append(joined, name)

\* The text of the exception r: the names it mentions.  ' -> '.join(path)
\* iterates a set, so every order of the path is a possible text.
Messages(r) ==
    IF r.ok THEN {<<>>}
    ELSE IF r.kind = "CircularDependencyError"
    THEN {MessageNames(j, r.name) :
            j \in {s \in SetOrders(r.path, Cardinality(r.path)) :
                     Len(s) = Cardinality(r.path)}}
    ELSE {<<r.name>>}

----------------------------------------------------------------------------
(* Rules: policy_inspector/model/security_rule.py.                         *)

\* SecurityRule(name=..., ...); category keeps its default.
SecurityRule(name, action, source_zones, destination_zones, source_addresses, destination_addresses, applications, services) ==
    [name |-> name, action |-> action,
     source_zones |-> source_zones,
     destination_zones |-> destination_zones,
     source_addresses |-> source_addresses,
     destination_addresses |-> destination_addresses,
     applications |-> applications, services |-> services,
     category |-> {AnyObj}]

from_security_rule_defaults(rule, resolved_source, resolved_destination) ==
    [name |-> rule.name, action |-> rule.action,
     source_zones |-> rule.source_zones,
     destination_zones |-> rule.destination_zones,
     source_addresses |-> rule.source_addresses,
     destination_addresses |-> rule.destination_addresses,
     applications |-> rule.applications, services |-> {},
     category |-> {AnyObj},
     resolved_source_addresses |-> resolved_source,
     resolved_destination_addresses |-> resolved_destination]

\* AdvancedSecurityRule.from_security_rule(rule, **kwargs): the fields of
\* rule, and the resolved lists that kwargs gives (None otherwise).
from_security_rule(rule, resolved_source, resolved_destination) ==
    [name |-> rule.name, action |-> rule.action,
     source_zones |-> rule.source_zones,
     destination_zones |-> rule.destination_zones,
     source_addresses |-> rule.source_addresses,
     destination_addresses |-> rule.destination_addresses,
     applications |-> rule.applications, services |-> rule.services,
     category |-> rule.category,
     resolved_source_addresses |-> resolved_source,
     resolved_destination_addresses |-> resolved_destination]

is_covered_by_same_kind(self, other) ==
    IF self.type = "FQDN" THEN other.type = "FQDN"
    ELSE IF other.type = "FQDN" THEN FALSE
    ELSE self.lo >= other.lo /\ self.hi <= other.hi

\* AddressObject*.is_covered_by(other)
is_covered_by(self, other) ==
    IF self.type = "FQDN"
    THEN other.type = "FQDN" /\ Lower(self.fqdn) = Lower(other.fqdn)
    ELSE IF other.type = "FQDN" THEN FALSE
    ELSE self.lo >= other.lo /\ self.hi <= other.hi

----------------------------------------------------------------------------
(* Predicates: policy_inspector/scenario/shadowing.py and                  *)
(* advanced_shadowing.py.  A call either returns a CheckResult             *)
(* <<bool, message>> or raises.                                            *)

Returns(b, message) == [raised |-> FALSE, value |-> <<b, message>>]
Raises(what) == [raised |-> TRUE, value |-> <<FALSE, what>>]

check_action_ignored(rule, preceding_rule) == Returns(TRUE, "Actions match")

check_action(rule, preceding_rule) ==
    IF rule.action = preceding_rule.action
    THEN Returns(TRUE, "Actions match")
    ELSE Returns(FALSE, "Actions differ")

check_source_zone(rule, preceding_rule) ==
    IF rule.source_zones = preceding_rule.source_zones
    THEN Returns(TRUE, "Source zones are the same")
    ELSE IF preceding_rule.source_zones \subseteq rule.source_zones
    THEN Returns(TRUE, "Preceding rule source zones cover rule's source zones")
    ELSE IF AnyObj \in preceding_rule.source_zones
    THEN Returns(TRUE, "Preceding rule source zones is 'any'")
    ELSE Returns(FALSE, "Source zones differ")

check_destination_zone_reversed(rule, preceding_rule) ==
    IF rule.destination_zones = preceding_rule.destination_zones
    THEN Returns(TRUE, "Destination zones are the same")
    ELSE IF preceding_rule.destination_zones \subseteq rule.destination_zones
    THEN Returns(TRUE,
            "Preceding rule destination zones cover rule's destination zones")
    ELSE IF AnyObj \in preceding_rule.destination_zones
    THEN Returns(TRUE, "Preceding rule destination zones is 'any'")
    ELSE Returns(FALSE, "Destination zones differ")

check_destination_zone(rule, preceding_rule) ==
    IF rule.destination_zones = preceding_rule.destination_zones
    THEN Returns(TRUE, "Destination zones are the same")
    ELSE IF rule.destination_zones \subseteq preceding_rule.destination_zones
    THEN Returns(TRUE,
            "Preceding rule destination zones cover rule's destination zones")
    ELSE IF AnyObj \in preceding_rule.destination_zones
    THEN Returns(TRUE, "Preceding rule destination zones is 'any'")
    ELSE Returns(FALSE, "Destination zones differ")

check_source_address(rule, preceding_rule) ==
    IF rule.source_addresses = preceding_rule.source_addresses
    THEN Returns(TRUE, "Source addresses are the same")
    ELSE IF AnyObj \in preceding_rule.source_addresses
    THEN Returns(TRUE, "Preceding rule allows any source address")
    ELSE IF AnyObj \in rule.source_addresses
    THEN Returns(FALSE, "Rule not covered due to 'any' source")
    ELSE IF rule.source_addresses \subseteq preceding_rule.source_addresses
    THEN Returns(TRUE,
            "Preceding rule source addresses cover rule's source addresses")
    ELSE Returns(FALSE, "Source addresses not covered at all")

check_destination_address(rule, preceding_rule) ==
    IF AnyObj \in preceding_rule.destination_addresses
    THEN Returns(TRUE, "Preceding rule allows any destination address")
    ELSE IF rule.destination_addresses = preceding_rule.destination_addresses
    THEN Returns(TRUE, "Destination addresses are the same")
    ELSE IF rule.destination_addresses
                \subseteq preceding_rule.destination_addresses
    THEN Returns(TRUE,
            "Preceding rule destination addresses cover rule's destination addresses")
    ELSE Returns(FALSE, "Destination addresses not covered at all")

check_application(rule, preceding_rule) ==
    IF rule.applications = preceding_rule.applications
    THEN Returns(TRUE, "The same applications")
    ELSE IF AnyObj \in preceding_rule.applications
    THEN Returns(TRUE, "Preceding rule allows any application")
    ELSE IF rule.applications \subseteq preceding_rule.applications
    THEN Returns(TRUE, "Preceding rule contains rule's applications")
    ELSE Returns(FALSE, "Rule doesn't cover")

check_services_wildcard(rule, preceding_rule) ==
    IF rule.services = preceding_rule.services
    THEN Returns(TRUE, "Preceding rule and rule's services are the same")
    ELSE IF AnyObj \in preceding_rule.services
    THEN Returns(TRUE, "Preceding rule contains rule's applications")
    ELSE IF \A service \in rule.services : service \in preceding_rule.services
    THEN Returns(TRUE, "Preceding rule contains rule's applications")
    ELSE Returns(FALSE,
            "Preceding rule does not contain all rule's applications")

check_services(rule, preceding_rule) ==
    IF rule.services = preceding_rule.services
    THEN Returns(TRUE, "Preceding rule and rule's services are the same")
    ELSE IF \A service \in rule.services : service \in preceding_rule.services
    THEN Returns(TRUE, "Preceding rule contains rule's applications")
    ELSE Returns(FALSE,
            "Preceding rule does not contain all rule's applications")

addresses_by_ip_fqdn_compared(addresses, preceding_addresses, resolved, preceding_resolved) ==
    IF addresses = preceding_addresses
    THEN Returns(TRUE, "Destination addresses are identical")
    ELSE IF AnyObj \in preceding_addresses
    THEN Returns(TRUE, "Preceding rule allows any destination")
    ELSE IF AnyObj \in addresses
    THEN Returns(FALSE, "Current rule allows any destination (too broad)")
    ELSE IF resolved = None
    THEN Raises("TypeError")
    ELSE IF resolved[1] = <<>>
    THEN Returns(TRUE, "FQDN destinations excluded from coverage check")
    ELSE IF preceding_resolved = None
    THEN Raises("TypeError")
    ELSE IF \E i \in 1..Len(resolved[1]) :
               ~\E k \in 1..Len(preceding_resolved[1]) :
                   is_covered_by(resolved[1][i], preceding_resolved[1][k])
    THEN Returns(FALSE, "Destination not covered by preceding rule")
    ELSE Returns(TRUE,
            "All non-FQDN destination addresses are covered by preceding rule(s)")

\* The body shared by check_source_addresses_by_ip and
\* check_destination_addresses_by_ip, on the name sets and the resolved
\* lists (Optional) of the two rules.  Iterating None raises TypeError:
\* the rule's list at the for statement, the preceding rule's list at the
\* first address object that is no FQDN.
addresses_by_ip(addresses, preceding_addresses, resolved, preceding_resolved) ==
    IF addresses = preceding_addresses
    THEN Returns(TRUE, "Destination addresses are identical")
    ELSE IF AnyObj \in preceding_addresses
    THEN Returns(TRUE, "Preceding rule allows any destination")
    ELSE IF AnyObj \in addresses
    THEN Returns(FALSE, "Current rule allows any destination (too broad)")
    ELSE IF resolved = None
    THEN Raises("TypeError")
    ELSE LET objs == resolved[1]
             compared == {i \in 1..Len(objs) : objs[i].type # "FQDN"}
         IN  IF compared = {}
             THEN Returns(TRUE, "FQDN destinations excluded from coverage check")
             ELSE IF preceding_resolved = None
             THEN Raises("TypeError")
             ELSE IF \E i \in compared :
                        ~\E k \in 1..Len(preceding_resolved[1]) :
                            /\ preceding_resolved[1][k].type # "FQDN"
                            /\ is_covered_by(objs[i], preceding_resolved[1][k])
             THEN Returns(FALSE, "Destination not covered by preceding rule")
             ELSE Returns(TRUE,
                     "All non-FQDN destination addresses are covered by preceding rule(s)")

check_source_addresses_by_ip(rule, preceding_rule) ==
    addresses_by_ip(rule.source_addresses, preceding_rule.source_addresses,
                    rule.resolved_source_addresses,
                    preceding_rule.resolved_source_addresses)

check_destination_addresses_by_ip(rule, preceding_rule) ==
    addresses_by_ip(rule.destination_addresses,
                    preceding_rule.destination_addresses,
                    rule.resolved_destination_addresses,
                    preceding_rule.resolved_destination_addresses)

\* Shadowing.checks
ShadowingChecks ==
    <<"check_action", "check_application", "check_services",
      "check_source_zone", "check_destination_zone",
      "check_source_address", "check_destination_address">>

\* ShadowingByValue.checks
ShadowingByValueChecks ==
    <<"check_action", "check_application", "check_services",
      "check_source_zone", "check_destination_zone",
      "check_source_addresses_by_ip", "check_destination_addresses_by_ip">>

\* self.checks of the scenario class in use
Checks(m) == IF m = "advanced" THEN ShadowingByValueChecks ELSE ShadowingChecks

\* check(*rules) for the check function of the given __name__
CallCheck(check, rule, preceding_rule) ==
    CASE check = "check_action" -> check_action(rule, preceding_rule)
      [] check = "check_application" -> check_application(rule, preceding_rule)
      [] check = "check_services" -> check_services(rule, preceding_rule)
      [] check = "check_source_zone" -> check_source_zone(rule, preceding_rule)
      [] check = "check_destination_zone" ->
             check_destination_zone(rule, preceding_rule)
      [] check = "check_source_address" ->
             check_source_address(rule, preceding_rule)
      [] check = "check_destination_address" ->
             check_destination_address(rule, preceding_rule)
      [] check = "check_source_addresses_by_ip" ->
             check_source_addresses_by_ip(rule, preceding_rule)
      [] check = "check_destination_addresses_by_ip" ->
             check_destination_addresses_by_ip(rule, preceding_rule)

----------------------------------------------------------------------------
(* Scenario.run_checks, Shadowing.execute, Shadowing.analyze.              *)

\* d[key] = value on a dict: a new key is appended, a present key keeps its
\* place.
DictSet(d, key, value) ==
    IF \E i \in 1..Len(d) : d[i][1] = key
    THEN [i \in 1..Len(d) |-> IF d[i][1] = key THEN <<key, value>> ELSE d[i]]
    ELSE Append(d, <<key, value>>)

DictKeys(d) == [i \in 1..Len(d) |-> d[i][1]]

DictGet(d, key) == d[CHOOSE i \in 1..Len(d) : d[i][1] = key][2]

RecordRaisedAsFailed(results, check, outcome) ==
    DictSet(results, check, outcome.value)

\* try: results[check.__name__] = check(*rules)
\* except Exception: logger.exception(...)
Record(results, check, outcome) ==
    IF outcome.raised THEN results
    ELSE DictSet(results, check, outcome.value)

RECURSIVE run_checks_from(_, _, _, _, _)
run_checks_from(checks, k, rule, preceding_rule, results) ==
    IF k > Len(checks) THEN results
    ELSE run_checks_from(checks, k + 1, rule, preceding_rule,
             Record(results, checks[k],
                    CallCheck(checks[k], rule, preceding_rule)))

\* Scenario.run_checks(rule, preceding_rule) with self.checks = checks
run_checks(checks, rule, preceding_rule) ==
    run_checks_from(checks, 1, rule, preceding_rule, <<>>)

PrecedingAndItself(i) == [j \in 1..i |-> j]

\* for j in range(i): the positions before the rule (here counted from 1)
Preceding(i) == [j \in 1..(i - 1) |-> j]

RECURSIVE output_from(_, _, _, _, _)
\* The inner loop of execute for the rule at position i.
output_from(checks, rules, i, k, output) ==
    IF k > Len(Preceding(i)) THEN output
    ELSE output_from(checks, rules, i, k + 1,
             DictSet(output, rules[Preceding(i)[k]].name,
                     run_checks(checks, rules[i], rules[Preceding(i)[k]])))

RECURSIVE execute_from(_, _, _, _)
execute_from(checks, rules, i, results) ==
    IF i > Len(rules) THEN results
    ELSE execute_from(checks, rules, i + 1,
             DictSet(results, rules[i].name,
                     output_from(checks, rules, i, 1, <<>>)))

\* The dict that Shadowing.execute builds for self.security_rules = rules.
execute(checks, rules) == execute_from(checks, rules, 1, <<>>)

AnyCheckPassed(checks_results) ==
    \E k \in 1..Len(checks_results) : checks_results[k][2][1]

\* all(check_result[0] for check_result in checks_results.values())
AllChecksPassed(checks_results) ==
    \A k \in 1..Len(checks_results) : checks_results[k][2][1]

\* {rule.name: rule for rule in self.security_rules}
RulesByName(rules) ==
    [n \in {rules[i].name : i \in 1..Len(rules)} |->
        rules[CHOOSE i \in 1..Len(rules) :
                 /\ rules[i].name = n
                 /\ \A j \in 1..Len(rules) : rules[j].name = n => j <= i]]

RECURSIVE shadowing_from(_, _, _, _)
\* The inner loop of analyze over rule_results.items().
shadowing_from(by_name, rule_results, k, shadowing_rules) ==
    IF k > Len(rule_results) THEN shadowing_rules
    ELSE shadowing_from(by_name, rule_results, k + 1,
             IF AllChecksPassed(rule_results[k][2])
             THEN Append(shadowing_rules, by_name[rule_results[k][1]])
             ELSE shadowing_rules)

RECURSIVE analyze_from(_, _, _, _)
analyze_from(by_name, results, i, analysis) ==
    IF i > Len(results) THEN analysis
    ELSE LET shadowing_rules ==
                 shadowing_from(by_name, results[i][2], 1, <<>>)
         IN  analyze_from(by_name, results, i + 1,
                 IF shadowing_rules # <<>>
                 THEN Append(analysis,
                             <<by_name[results[i][1]], shadowing_rules>>)
                 ELSE analysis)

\* The list that Shadowing.analyze(results) builds.
analyze(by_name, results) == analyze_from(by_name, results, 1, <<>>)

----------------------------------------------------------------------------
(* A Resolver in use: Resolver.__init__ and calls of Resolver.resolve.     *)

GroupNames == {"gA", "gB", "gC"}

\* The address objects handed to Resolver.__init__, keyed by name.
AddressObjects ==
    [n \in {"o1", "o2", "f1"} |->
        CASE n = "o1" -> AddressObjectIPNetwork("o1", "10.0.0.1/32")[1]
          [] n = "o2" -> AddressObjectIPRange("o2", "10.0.0.1-10.0.0.2")[1]
          [] OTHER -> AddressObjectFQDN("f1", "example.com")]

\* The names a group may list: groups, a known object and an unknown name.
MemberNames == GroupNames \cup {"o1", "bogus"}

\* The names a caller may hand to resolve.
QueryNames ==
    GroupNames \cup
    {"o1", "f1", "10.0.0.5/30", "10.0.0.1-10.0.0.2", "10.0.0.2-10.0.0.1",
     "bogus", AnyObj}

ScenarioUnused ==
    /\ input_rules = <<>>
    /\ pc = "loaded"
    /\ security_rules = <<>>
    /\ rules_by_name = << >>
    /\ execution_results = None
    /\ analysis_results = None
    /\ analyzed = None
    /\ construct_error = None

\* No function is studied alone.
CallUnused ==
    /\ call = None
    /\ call_result = None

\* Resolver.__init__: the dictionaries are built, the cache is empty.
InitResolver ==
    /\ mode = "resolver"
    /\ address_objects = AddressObjects
    /\ address_groups \in [GroupNames -> SetOrders(MemberNames, MaxMembers)]
    /\ Len(address_groups["gA"]) + Len(address_groups["gB"])
          + Len(address_groups["gC"]) <= MaxEdges
    /\ cache = << >>
    /\ returned = <<>>
    /\ ScenarioUnused
    /\ CallUnused

\* The call resolver.resolve(names) having ended as r.
Resolved(names, r) ==
    /\ cache' = r.cache
    /\ \E m \in Messages(r) :
         returned' = Append(returned,
                            [names |-> names, ok |-> r.ok, res |-> r.res,
                             kind |-> r.kind, msg |-> m])

\* One call resolver.resolve(names), to its return or to the exception
\* that leaves it.
Resolve(names) ==
    /\ mode = "resolver"
    /\ Len(returned) < MaxCalls
    /\ Resolved(names, resolve(names, cache))
    /\ UNCHANGED <<address_objects, address_groups, mode, scenarioVars,
                   callVars>>

NextResolver == \E names \in SetOrders(QueryNames, MaxNames) : Resolve(names)

SpecResolver == InitResolver /\ [][NextResolver]_vars

----------------------------------------------------------------------------
(* A scenario in use: Shadowing / ShadowingByValue construction, execute   *)
(* and analyze.                                                            *)

\* The orders in which the set S may iterate.
Orders(S) == {s \in SetOrders(S, Cardinality(S)) : Len(s) = Cardinality(S)}

RECURSIVE IterationOrders(_, _)
\* For each of the first n rules, an order in which its source_addresses
\* and its destination_addresses iterate.
IterationOrders(rules, n) ==
    IF n = 0 THEN {<<>>}
    ELSE {Append(o, [source |-> s, destination |-> d]) :
            o \in IterationOrders(rules, n - 1),
            s \in Orders(rules[n].source_addresses),
            d \in Orders(rules[n].destination_addresses)}

\* The outcome r of resolver.resolve with its list as a set parameter.
SomeRes(r) == IF r.ok THEN [r EXCEPT !.res = Some(r.res)] ELSE r

\* if src_addrs and AnyObj not in src_addrs
NeedsResolving(addrs) == addrs # {} /\ AnyObj \notin addrs

\* ShadowingByValue.resolve_rule(rule) on the resolver cache c, the two
\* address sets iterating in the given orders.  An exception of
\* resolver.resolve leaves the method.
\* params["resolved_..."] = self.resolver.resolve(addrs) when the guard
\* holds: Some(list) in res; otherwise the key stays unset, None in res.
resolve_param(addrs, order, c) ==
    IF NeedsResolving(addrs) THEN SomeRes(resolve(order, c))
    ELSE Return(None, c)

\* The second half of resolve_rule, the source addresses having given src.
resolve_rule_destination(rule, src, dst) ==
    IF ~dst.ok THEN dst
    ELSE [dst EXCEPT !.res = from_security_rule(rule, src.res, dst.res)]

resolve_rule_source(rule, order, src) ==
    IF ~src.ok THEN src
    ELSE resolve_rule_destination(rule, src,
             resolve_param(rule.destination_addresses, order.destination,
                           src.cache))

\* ShadowingByValue.resolve_rule(rule) on the resolver cache c, the two
\* address sets iterating in the given orders: the AdvancedSecurityRule in
\* res, or the exception of resolver.resolve, which leaves the method.
resolve_rule(rule, order, c) ==
    resolve_rule_source(rule, order,
        resolve_param(rule.source_addresses, order.source, c))

RECURSIVE resolve_rules_from(_, _, _, _, _)
RECURSIVE resolve_rules_next(_, _, _, _, _)
\* The loop of ShadowingByValue.resolve_rules from the i-th rule on.
resolve_rules_from(rules, orders, i, c, resolved) ==
    IF i > Len(rules) THEN Return(resolved, c)
    ELSE resolve_rules_next(rules, orders, i, resolved,
                            resolve_rule(rules[i], orders[i], c))

\* resolved.append(<the call r>)
resolve_rules_next(rules, orders, i, resolved, r) ==
    IF r.ok
    THEN resolve_rules_from(rules, orders, i + 1, r.cache,
                            Append(resolved, r.res))
    ELSE r

\* ShadowingByValue.resolve_rules() with a new Resolver.
resolve_rules(rules, orders) == resolve_rules_from(rules, orders, 1, << >>, <<>>)

\* The end of ShadowingByValue.__init__, resolve_rules having ended as r.
Constructed(r) ==
    /\ cache' = r.cache
    /\ IF r.ok
       THEN /\ security_rules' = r.res
            /\ rules_by_name' = RulesByName(r.res)
            /\ pc' = "constructed"
            /\ construct_error' = None
       ELSE /\ pc' = "failed"
            /\ construct_error' = Some([kind |-> r.kind, name |-> r.name])
            /\ UNCHANGED <<security_rules, rules_by_name>>

\* Shadowing.__init__(security_rules)
ConstructShadowing ==
    /\ mode = "simple"
    /\ pc = "loaded"
    /\ security_rules' = input_rules
    /\ rules_by_name' = RulesByName(input_rules)
    /\ execution_results' = None
    /\ analysis_results' = None
    /\ pc' = "constructed"
    /\ UNCHANGED <<resolverVars, mode, input_rules, analyzed, construct_error,
                   callVars>>

\* ShadowingByValue.__init__(security_rules, address_objects,
\* address_groups): either every rule is resolved, or the exception of the
\* resolver leaves the constructor and there is no scenario object.
ConstructShadowingByValue ==
    /\ mode = "advanced"
    /\ pc = "loaded"
    /\ \E orders \in IterationOrders(input_rules, Len(input_rules)) :
         Constructed(resolve_rules(input_rules, orders))
    /\ UNCHANGED <<address_objects, address_groups, returned, mode,
                   input_rules, execution_results, analysis_results, analyzed,
                   callVars>>

\* scenario.execute()
Execute ==
    /\ pc = "constructed"
    /\ execution_results' = Some(execute(Checks(mode), security_rules))
    /\ UNCHANGED <<resolverVars, mode, input_rules, pc, security_rules,
                   rules_by_name, analysis_results, analyzed, construct_error,
                   callVars>>

\* scenario.analyze(results)
Analyze(results) ==
    /\ pc = "constructed"
    /\ analysis_results' = Some(analyze(rules_by_name, results))
    /\ analyzed' = Some(results)
    /\ UNCHANGED <<resolverVars, mode, input_rules, pc, security_rules,
                   rules_by_name, execution_results, construct_error,
                   callVars>>

\* What a caller hands to analyze: the stored result of execute, or an
\* empty dict.
AnalyzeInputs ==
    {<<>>} \cup (IF execution_results = None THEN {} ELSE {execution_results[1]})

RuleName(i) ==
    CASE i = 1 -> "r2" [] i = 2 -> "r3" [] i = 3 -> "r1" [] i = 4 -> "r5"
      [] OTHER -> "r4"

Actions == {"allow", "deny"}

SourceAddressSets ==
    {{AnyObj}, {}, {"o1"}, {"gA"}, {"gA", "gB"}, {"bogus"}}

\* The rules a list may hold at position i: the rule of the test fixture
\* with its action and source addresses varied, the same rule for any
\* source zone, and the same rule without destination addresses.
RulesAt(i) ==
    {SecurityRule(RuleName(i), a, {"zA"}, {"zB"}, sa, {AnyObj}, {"web"},
                  {"http"}) : a \in Actions, sa \in SourceAddressSets}
    \cup {SecurityRule(RuleName(i), "allow", {AnyObj}, {"zB"}, {AnyObj},
                       {AnyObj}, {"web"}, {"http"}),
          SecurityRule(RuleName(i), "allow", {"zA"}, {"zB"}, {AnyObj},
                       {}, {"web"}, {"http"})}

RECURSIVE RuleLists(_)
\* The rule lists of length n, names unique.
RuleLists(n) ==
    IF n = 0 THEN {<<>>}
    ELSE {Append(l, r) : l \in RuleLists(n - 1), r \in RulesAt(n)}

\* The address groups handed to ShadowingByValue: nested groups that
\* resolve; an unknown name below two groups; a self-reference beside an
\* unknown name.
ScenarioGroups ==
    {[g \in GroupNames |->
        CASE g = "gA" -> <<"o1", "gB">> [] g = "gB" -> <<"o2">>
          [] OTHER -> <<>>],
     [g \in GroupNames |->
        CASE g = "gA" -> <<"gC">> [] g = "gB" -> <<"o1">>
          [] OTHER -> <<"gB", "bogus">>],
     [g \in GroupNames |->
        CASE g = "gA" -> <<"gA">> [] g = "gB" -> <<"bogus">>
          [] OTHER -> <<>>]}

Init ==
    /\ mode \in {"simple", "advanced"}
    /\ address_objects = AddressObjects
    /\ address_groups \in ScenarioGroups
    /\ mode = "simple" => address_groups["gA"] = <<"o1", "gB">>
    /\ cache = << >>
    /\ returned = <<>>
    /\ \E n \in 0..MaxRules : input_rules \in RuleLists(n)
    /\ pc = "loaded"
    /\ security_rules = <<>>
    /\ rules_by_name = << >>
    /\ execution_results = None
    /\ analysis_results = None
    /\ analyzed = None
    /\ construct_error = None
    /\ CallUnused

Next ==
    \/ ConstructShadowing
    \/ ConstructShadowingByValue
    \/ Execute
    \/ \E results \in AnalyzeInputs : Analyze(results)

Spec == Init /\ [][Next]_vars

----------------------------------------------------------------------------
(* A scenario over two rules that differ in one field: every predicate on  *)
(* every pair of values of its field.                                      *)

AppDefault == "application-default"

\* The values of a set field of a rule.
FieldValues == SUBSET {AnyObj, AppDefault, "a", "b"}

SetFields ==
    {"source_zones", "destination_zones", "source_addresses",
     "destination_addresses", "applications", "services", "category"}

\* SecurityRule(name=, action=): the other fields keep their defaults.
DefaultRule(name, action) ==
    SecurityRule(name, action, {AnyObj}, {AnyObj}, {AnyObj}, {AnyObj},
                 {AnyObj}, {})

\* The lists [preceding_rule, rule] of SecurityRule that differ in one set
\* field of fields, and possibly in the action.
ListsVarying(fields) ==
    {<<[DefaultRule("r1", "allow") EXCEPT ![f] = P],
       [DefaultRule("r2", a) EXCEPT ![f] = S]>> :
        f \in fields, S \in FieldValues, P \in FieldValues, a \in Actions}

\* The address groups of the rules below: nested groups and an empty one.
CheckGroups ==
    [g \in GroupNames |->
        CASE g = "gA" -> <<"o1", "gB">> [] g = "gB" -> <<"o2">>
          [] OTHER -> <<>>]

\* The names the address sets of the rules below are drawn from: the
\* wildcard, objects of the three kinds, a network literal and groups.
AddressNames == {AnyObj, "o1", "o2", "f1", "10.0.0.5/30", "gA", "gC"}

AddressSets == {S \in SUBSET AddressNames : Cardinality(S) <= MaxAddresses}

\* The lists [preceding_rule, rule] handed to ShadowingByValue that differ
\* in one address field, over names that resolve.
AdvancedLists ==
    {<<[DefaultRule("r1", "allow") EXCEPT ![f] = P],
       [DefaultRule("r2", "allow") EXCEPT ![f] = S]>> :
        f \in {"source_addresses", "destination_addresses"},
        S \in AddressSets, P \in AddressSets}

\* The rule lists handed to the scenario class of mode m.
CheckLists(m) ==
    IF m = "simple" THEN ListsVarying(SetFields)
    ELSE AdvancedLists \cup
         ListsVarying(SetFields \ {"source_addresses", "destination_addresses"})

\* A scenario class of either kind, about to be constructed over a list of
\* two rules that differ in one field.
InitChecks ==
    /\ mode \in {"simple", "advanced"}
    /\ address_objects = AddressObjects
    /\ address_groups = CheckGroups
    /\ cache = << >>
    /\ returned = <<>>
    /\ input_rules \in CheckLists(mode)
    /\ pc = "loaded"
    /\ security_rules = <<>>
    /\ rules_by_name = << >>
    /\ execution_results = None
    /\ analysis_results = None
    /\ analyzed = None
    /\ construct_error = None
    /\ CallUnused

SpecChecks == InitChecks /\ [][Next]_vars

----------------------------------------------------------------------------
(* EnhancedShadowingScenario: the exclusion of predicates by keyword.      *)
(* policy_inspector/scenarios/enhanced_shadowing.py                        *)

\* The characters of the strings below (a string that is not listed has
\* none: the empty string).
Chars(s) ==
    CASE s = "check_source_zone" ->
             <<"c", "h", "e", "c", "k", "_", "s", "o", "u", "r", "c", "e", "_", "z", "o", "n", "e">>
      [] s = "check_destination_zone" ->
             <<"c", "h", "e", "c", "k", "_", "d", "e", "s", "t", "i", "n", "a", "t", "i", "o", "n", "_", "z", "o", "n", "e">>
      [] s = "check_source_address" ->
             <<"c", "h", "e", "c", "k", "_", "s", "o", "u", "r", "c", "e", "_", "a", "d", "d", "r", "e", "s", "s">>
      [] s = "check_destination_address" ->
             <<"c", "h", "e", "c", "k", "_", "d", "e", "s", "t", "i", "n", "a", "t", "i", "o", "n", "_", "a", "d", "d", "r", "e", "s", "s">>
      [] s = "check_services" ->
             <<"c", "h", "e", "c", "k", "_", "s", "e", "r", "v", "i", "c", "e", "s">>
      [] s = "check_application" ->
             <<"c", "h", "e", "c", "k", "_", "a", "p", "p", "l", "i", "c", "a", "t", "i", "o", "n">>
      [] s = "check_action" ->
             <<"c", "h", "e", "c", "k", "_", "a", "c", "t", "i", "o", "n">>
      [] s = "zone" ->
             <<"z", "o", "n", "e">>
      [] s = "address" ->
             <<"a", "d", "d", "r", "e", "s", "s">>
      [] s = "source" ->
             <<"s", "o", "u", "r", "c", "e">>
      [] s = "_" ->
             <<"_">>
      [] s = "Zone" ->
             <<"Z", "o", "n", "e">>
      [] s = "check_action" ->
             <<"c", "h", "e", "c", "k", "_", "a", "c", "t", "i", "o", "n">>
      [] s = "services_" ->
             <<"s", "e", "r", "v", "i", "c", "e", "s", "_">>
      [] s = "ion" ->
             <<"i", "o", "n">>
      [] OTHER -> <<>>

\* The checks of EnhancedShadowingScenario.__init__, by __name__.
EnhancedChecks ==
    <<"check_source_zone", "check_destination_zone", "check_source_address",
      "check_destination_address", "check_services", "check_application",
      "check_action">>

\* The keywords a caller may hand over as exclude_checks.
Keywords == {"zone", "address", "source", "", "Zone", "check_action"}

\* keyword in name, on the characters of the two strings
ContainsPrefix(name, keyword) == SubSeq(name, 1, Len(keyword)) = keyword

Contains(name, keyword) ==
    \E i \in 0..(Len(name) - Len(keyword)) :
        SubSeq(name, i + 1, i + Len(keyword)) = keyword

\* any(keyword in check.__name__ for keyword in self.exclude_checks)
AnyKeywordIn(check, exclude_checks) ==
    \E k \in 1..Len(exclude_checks) :
        Contains(Chars(check), Chars(exclude_checks[k]))

RECURSIVE FilterChecks(_, _, _)
\* [check for check in self.checks if not any(...)] from the i-th check on
FilterChecks(checks, i, exclude_checks) ==
    IF i > Len(checks) THEN <<>>
    ELSE (IF AnyKeywordIn(checks[i], exclude_checks) THEN <<>>
          ELSE <<checks[i]>>) \o FilterChecks(checks, i + 1, exclude_checks)

\* self.checks at the end of EnhancedShadowingScenario.__init__
ActiveChecks(exclude_checks) ==
    IF exclude_checks # <<>>
    THEN FilterChecks(EnhancedChecks, 1, exclude_checks)
    ELSE EnhancedChecks

\* What a predicate may do on a pair of rules.
CheckOutcomes == {"true", "false", "raise"}

RECURSIVE CheckResults(_, _, _)
\* The inner loop of EnhancedShadowingScenario.execute for one pair: the
\* result of every active check under its name, False for one that raised.
CheckResults(checks, i, outcomes) ==
    IF i > Len(checks) THEN <<>>
    ELSE <<<<checks[i], [result |-> outcomes[checks[i]] = "true"]>>>>
         \o CheckResults(checks, i + 1, outcomes)

\* all(check_result['result'] for check_result in check_results.values())
all_checks_passed(check_results) ==
    \A k \in 1..Len(check_results) : check_results[k][2].result

InitEnhanced ==
    /\ mode = "enhanced"
    /\ address_objects = << >>
    /\ address_groups = << >>
    /\ cache = << >>
    /\ returned = <<>>
    /\ ScenarioUnused
    /\ CallUnused

\* EnhancedShadowingScenario(panorama, exclude_checks=exclude_checks)
ConstructEnhanced(exclude_checks) ==
    /\ mode = "enhanced"
    /\ call = None
    /\ call' = Some([exclude_checks |-> exclude_checks,
                     checks |-> ActiveChecks(exclude_checks)])
    /\ UNCHANGED <<resolverVars, mode, scenarioVars, call_result>>

\* The checks of execute on one pair of rules, each predicate doing one of
\* CheckOutcomes, and the verdict of analyze on that pair.
ExecutePair ==
    /\ mode = "enhanced"
    /\ call # None
    /\ call_result = None
    /\ \E outcomes \in [Range(EnhancedChecks) -> CheckOutcomes] :
         call_result' =
           Some([outcomes |-> outcomes,
                 check_results |-> CheckResults(call[1].checks, 1, outcomes),
                 all_checks_passed |->
                     all_checks_passed(
                         CheckResults(call[1].checks, 1, outcomes))])
    /\ UNCHANGED <<resolverVars, mode, scenarioVars, call>>

NextEnhanced ==
    \/ \E exclude_checks \in
           UNION {[1..n -> Keywords] : n \in 0..MaxKeywords} :
         ConstructEnhanced(exclude_checks)
    \/ ExecutePair

SpecEnhanced == InitEnhanced /\ [][NextEnhanced]_vars

----------------------------------------------------------------------------
(* The address objects alone: construction and is_covered_by.              *)
(* policy_inspector/model/address_object.py                                *)

\* The elements of the tuples handed to AddressObjectIPRange.
RangeElements ==
    {[type |-> "str", text |-> s, address |-> 0] :
        s \in {"10.0.0.1", "10.0.0.2", "20.0.0.100.1"}}
    \cup {[type |-> "IPv4Address", text |-> "", address |-> a] :
            a \in {1, 2}}

\* The values handed to AddressObjectIPRange: strings, tuples, and a single
\* IPv4Address.
RangeInputs ==
    {[kind |-> "str", text |-> s, elements |-> <<>>] :
        s \in {"10.0.0.1-10.0.0.2", "10.0.0.2-10.0.0.1", "10.0.0.1-10.0.0.1",
               "10.0.0.2-10.0.0.2", "10.0.0.1", "10.0.0.1-20.0.0.100.1"}}
    \cup {[kind |-> "tuple", text |-> "", elements |-> e] :
            e \in UNION {[1..n -> RangeElements] : n \in 1..MaxParts}}
    \cup {[kind |-> "IPv4Address", text |-> "",
           elements |-> <<[type |-> "IPv4Address", text |-> "",
                           address |-> 1]>>]}

\* The values handed to AddressObjectIPNetwork and AddressObjectFQDN.
TextInput(s) == [kind |-> "str", text |-> s, elements |-> <<>>]

NetworkInputs ==
    {TextInput(s) :
        s \in {"10.0.0.1", "10.0.0.1/32", "10.0.0.5/30", "10.0.0.1/31",
               "10.0.0.1/30", "invalid_ip"}}

FqdnInputs ==
    {TextInput(s) :
        s \in {"example.com", "Example.COM", "example.org", "example..com"}}

\* The constructor calls: a class and the value handed to it.
ObjectInputs ==
    {[class |-> "AddressObjectIPRange", value |-> v] : v \in RangeInputs}
    \cup {[class |-> "AddressObjectIPNetwork", value |-> v] :
            v \in NetworkInputs}
    \cup {[class |-> "AddressObjectFQDN", value |-> v] : v \in FqdnInputs}

\* The object of a constructor call (Optional).
Construct(input) ==
    CASE input.class = "AddressObjectIPRange" ->
           AddressObjectIPRangeOf("n", input.value)
      [] input.class = "AddressObjectIPNetwork" ->
           AddressObjectIPNetwork("n", input.value.text)
      [] OTHER -> AddressObjectFQDNOf("n", input.value.text)

InitObjects ==
    /\ mode = "objects"
    /\ address_objects = << >>
    /\ address_groups = << >>
    /\ cache = << >>
    /\ returned = <<>>
    /\ ScenarioUnused
    /\ CallUnused

\* One constructor call: the object, or none when validation fails.
ConstructObject(input) ==
    /\ mode = "objects"
    /\ call = None
    /\ call' = Some([op |-> "construct", input |-> input])
    /\ call_result' = Some([object |-> Construct(input)])
    /\ UNCHANGED <<resolverVars, mode, scenarioVars>>

\* self.is_covered_by(other) on two constructed objects.
IsCoveredBy(self_input, other_input) ==
    /\ mode = "objects"
    /\ call = None
    /\ Construct(self_input) # None
    /\ Construct(other_input) # None
    /\ call' = Some([op |-> "is_covered_by",
                     self_input |-> self_input, other_input |-> other_input,
                     self |-> Construct(self_input)[1],
                     other |-> Construct(other_input)[1]])
    /\ call_result' =
           Some([returned |-> is_covered_by(Construct(self_input)[1],
                                            Construct(other_input)[1])])
    /\ UNCHANGED <<resolverVars, mode, scenarioVars>>

NextObjects ==
    \/ \E input \in ObjectInputs : ConstructObject(input)
    \/ \E self_input \in ObjectInputs, other_input \in ObjectInputs :
         IsCoveredBy(self_input, other_input)

SpecObjects == InitObjects /\ [][NextObjects]_vars

----------------------------------------------------------------------------
(* Resolver.resolve step by step: the frames of _resolve_name on a stack.  *)
(* policy_inspector/resolver.py                                            *)

\* A call of resolve is under way.
Running == mode = "steps" /\ call # None /\ call_result = None

\* The frame of _resolve_name(name, path) at its first statement.
Frame(name, path) ==
    [name |-> name, path |-> path, phase |-> "entry", k |-> 1,
     resolved |-> <<>>]

Depth == Len(call[1].stack)

Top == call[1].stack[Depth]

\* The top frame does not enter the loop over the members of a group: the
\* name is the wildcard, is on the path, is cached or is no group.
Leaf(frame) ==
    \/ frame.name = AnyObj
    \/ OnPath(frame.name, frame.path)
    \/ frame.name \in DOMAIN cache
    \/ frame.name \notin DOMAIN address_groups

\* What the top frame ends with once nothing is left for it to call: the
\* value or exception of a frame that does not loop, and the end of the
\* first try block for one whose loop is over.
Ending(frame) ==
    IF frame.phase = "entry"
    THEN resolve_name(frame.name, frame.path, cache)
    ELSE resolve_group_end(frame.name, Return(frame.resolved, cache))

\* The top frame has nothing left to call.
AtEnd(frame) ==
    IF frame.phase = "entry" THEN Leaf(frame)
    ELSE frame.k > Len(address_groups[frame.name])

InitSteps ==
    /\ mode = "steps"
    /\ address_objects = AddressObjects
    /\ address_groups \in [GroupNames -> SetOrders(MemberNames, MaxMembers)]
    /\ Len(address_groups["gA"]) + Len(address_groups["gB"])
          + Len(address_groups["gC"]) <= MaxEdges
    /\ cache = << >>
    /\ returned = <<>>
    /\ ScenarioUnused
    /\ CallUnused

\* resolver.resolve(names) is called on the new Resolver: result = []
StartResolve(names) ==
    /\ mode = "steps"
    /\ call = None
    /\ call' = Some([names |-> names, i |-> 1, result |-> <<>>,
                     stack |-> <<>>, cache0 |-> cache])
    /\ call_result' = None
    /\ UNCHANGED <<resolverVars, mode, scenarioVars>>

\* self._resolve_name(name, set()) from the loop of resolve, or
\* self._resolve_name(member, new_path) from the loop over the members.
\* The interpreter makes no call beyond its recursion limit.
CallResolveName ==
    /\ Running
    /\ Depth < RecursionLimit
    /\ \/ /\ Depth = 0
          /\ call[1].i <= Len(call[1].names)
          /\ call' = Some([call[1] EXCEPT !.stack =
                              <<Frame(call[1].names[call[1].i], {})>>])
       \/ /\ Depth > 0
          /\ Top.phase = "loop"
          /\ Top.k <= Len(address_groups[Top.name])
          /\ call' = Some([call[1] EXCEPT !.stack =
                              Append(@, Frame(address_groups[Top.name][Top.k],
                                              NewPath(Top.path, Top.name)))])
    /\ UNCHANGED <<resolverVars, mode, scenarioVars, call_result>>

\* The first try block is entered for the name of a group: resolved = [],
\* new_path = path | {name}.
EnterGroup ==
    /\ Running
    /\ Depth > 0
    /\ Top.phase = "entry"
    /\ ~Leaf(Top)
    /\ call' = Some([call[1] EXCEPT !.stack[Depth].phase = "loop"])
    /\ UNCHANGED <<resolverVars, mode, scenarioVars, call_result>>

\* The top frame returns: what it stored is in the cache, and its list
\* extends the list of the frame below it (resolved.extend, and on to the
\* next member) or the result of resolve.
ReturnResolveName ==
    /\ Running
    /\ Depth > 0
    /\ AtEnd(Top)
    /\ Ending(Top).ok
    /\ cache' = Ending(Top).cache
    /\ call' = Some(IF Depth = 1
                    THEN [call[1] EXCEPT !.stack = <<>>,
                                         !.result = Extend(@, Ending(Top).res),
                                         !.i = @ + 1]
                    ELSE [call[1] EXCEPT !.stack =
                             [j \in 1..(Depth - 1) |->
                                 IF j = Depth - 1
                                 THEN [@[j] EXCEPT
                                          !.resolved = Extend(@, Ending(Top).res),
                                          !.k = @ + 1]
                                 ELSE @[j]]])
    /\ UNCHANGED <<address_objects, address_groups, returned, mode,
                   scenarioVars, call_result>>

\* The call resolve(names) has ended as r.
Ended(r) ==
    /\ call_result' = Some([ok |-> r.ok, res |-> r.res, kind |-> r.kind])
    /\ \E m \in Messages(r) :
         returned' = Append(returned,
                            [names |-> call[1].names, ok |-> r.ok,
                             res |-> r.res, kind |-> r.kind, msg |-> m])

\* The top frame raises CircularDependencyError or ValueError; no frame
\* below it catches either, so the exception leaves resolve.
RaiseResolveName ==
    /\ Running
    /\ Depth > 0
    /\ AtEnd(Top)
    /\ ~Ending(Top).ok
    /\ Ended(Ending(Top))
    /\ UNCHANGED <<address_objects, address_groups, cache, mode,
                   scenarioVars, call>>

\* return result
ReturnResolve ==
    /\ Running
    /\ Depth = 0
    /\ call[1].i > Len(call[1].names)
    /\ Ended(Return(call[1].result, cache))
    /\ UNCHANGED <<address_objects, address_groups, cache, mode,
                   scenarioVars, call>>

\* One step of a call of resolve that is under way.
StepResolve ==
    \/ CallResolveName
    \/ EnterGroup
    \/ ReturnResolveName
    \/ RaiseResolveName
    \/ ReturnResolve

NextSteps ==
    \/ \E names \in SetOrders(QueryNames, MaxNames) : StartResolve(names)
    \/ StepResolve

\* The interpreter runs a call that is under way to its end.
SpecSteps == InitSteps /\ [][NextSteps]_vars /\ WF_vars(StepResolve)

----------------------------------------------------------------------------
(* The unified Scenario: execute_and_analyze and the data it stores.       *)
(* policy_inspector/scenario.py                                            *)

\* What execute of a subclass may return, the data of Panorama being what
\* it is at the time of the call.
ExecuteResults == {"R1", "R2", "R3"}

\* analyze of a subclass raises on results it cannot handle.
AnalyzeRaises(results) == results = "R3"

\* What analyze of a subclass returns for results.
Analysis(results) == <<"analysis of", results>>

InitUnified ==
    /\ mode = "unified"
    /\ address_objects = << >>
    /\ address_groups = << >>
    /\ cache = << >>
    /\ returned = <<>>
    /\ ScenarioUnused
    /\ call = Some([results |-> None, analysis |-> None])
    /\ call_result = None

\* The call op has ended with value: kept with the calls before it.
Logged(op, raised, value) ==
    /\ call_result' = Some([op |-> op, raised |-> raised, value |-> value])
    /\ returned' = Append(returned, op)

\* scenario.execute_and_analyze(), execute doing what outcome says:
\* self._results = self.execute(), which may raise, and then
\* self._analysis = self.analyze(self._results), which may raise too.
ExecuteAndAnalyze(outcome) ==
    /\ mode = "unified"
    /\ Len(returned) < MaxOps
    /\ IF outcome = "raise"
       THEN /\ call' = call
            /\ Logged("execute_and_analyze", TRUE, None)
       ELSE IF AnalyzeRaises(outcome)
       THEN /\ call' = Some([call[1] EXCEPT !.results = Some(outcome)])
            /\ Logged("execute_and_analyze", TRUE, None)
       ELSE /\ call' = Some([results |-> Some(outcome),
                          analysis |-> Some(Analysis(outcome))])
            /\ Logged("execute_and_analyze", FALSE,
                      Some(Analysis(outcome)))
    /\ UNCHANGED <<address_objects, address_groups, cache, mode,
                   scenarioVars>>

\* return self._analysis if self._analysis is not None else self._results
get_data(self) ==
    IF self.analysis # None THEN self.analysis
    ELSE IF self.results # None THEN Some(<<"results", self.results[1]>>)
    ELSE None

\* scenario.get_data_for_display()
GetDataForDisplay ==
    /\ mode = "unified"
    /\ Len(returned) < MaxOps
    /\ Logged("get_data_for_display", FALSE, get_data(call[1]))
    /\ UNCHANGED <<address_objects, address_groups, cache, mode,
                   scenarioVars, call>>

\* scenario.get_data_for_export()
GetDataForExport ==
    /\ mode = "unified"
    /\ Len(returned) < MaxOps
    /\ Logged("get_data_for_export", FALSE, get_data(call[1]))
    /\ UNCHANGED <<address_objects, address_groups, cache, mode,
                   scenarioVars, call>>

NextUnified ==
    \/ \E outcome \in ExecuteResults \cup {"raise"} :
          ExecuteAndAnalyze(outcome)
    \/ GetDataForDisplay
    \/ GetDataForExport

SpecUnified == InitUnified /\ [][NextUnified]_vars

----------------------------------------------------------------------------
(* The legacy resolver AddressLookup.  pins/resolve.py                     *)

\* set(ip_network): iterating an IPv4Network gives its addresses.
Hosts(network) == {<<"IPv4Address", a, a>> : a \in network.lo..network.hi}

RECURSIVE lookup_from(_, _, _, _)
RECURSIVE lookup_current(_, _, _, _, _)
RECURSIVE lookup_network(_, _, _, _, _)
\* The while loop of AddressLookup.resolve: current = stack.pop()
lookup_from(stack, visited, resolved, c) ==
    IF stack = <<>> THEN [ok |-> TRUE, res |-> resolved, cache |-> c]
    ELSE lookup_current(stack[Len(stack)], SubSeq(stack, 1, Len(stack) - 1),
                        visited, resolved, c)

\* The body of the loop for current, down to the address object lookup:
\* IPv4Network is called with the ip_netmask of an address object of that
\* name, or with the name itself.
lookup_current(current, stack, visited, resolved, c) ==
    IF current \in visited THEN lookup_from(stack, visited, resolved, c)
    ELSE IF current \in DOMAIN c.single
    THEN lookup_from(stack, visited \cup {current},
                     resolved \cup c.single[current], c)
    ELSE IF current \in DOMAIN address_groups
    THEN lookup_from(stack \o address_groups[current],
                     visited \cup {current}, resolved, c)
    ELSE lookup_network(IF current \in DOMAIN address_objects
                        THEN address_objects[current] ELSE current,
                        stack, visited \cup {current}, resolved, c)

\* The try block: ip_network = IPv4Network(current, strict=False);
\* resolved.add(ip_network); self.cache[current] = set(ip_network)
\* A ValueError leaves with what the cache holds by then.
lookup_network(value, stack, visited, resolved, c) ==
    IF IPv4Network(value) = None THEN [ok |-> FALSE, res |-> {}, cache |-> c]
    ELSE lookup_from(stack, visited,
                     resolved \cup {<<"IPv4Network",
                                        IPv4Network(value)[1].lo,
                                        IPv4Network(value)[1].hi>>},
                     [c EXCEPT !.single =
                         CacheStore(@, value, Hosts(IPv4Network(value)[1]))])

\* self.cache[tuple(names)] = resolved; return resolved
lookup_end(names, r) ==
    IF r.ok
    THEN [r EXCEPT !.cache.whole = CacheStore(@, names, r.res)]
    ELSE r

\* AddressLookup.resolve(names) on the cache c, names iterating in the
\* order of the sequence.
lookup_resolve(names, c) == lookup_end(names, lookup_from(names, {}, {}, c))

\* The address objects of the lookup, by name: their ip_netmask.
LookupObjects ==
    [n \in {"o1", "o5"} |->
        CASE n = "o1" -> "10.0.0.1/32" [] OTHER -> "10.0.0.5/30"]

\* The address groups of the lookup: nested groups, and two groups that
\* name each other beside an unknown name.
LookupGroups ==
    {[g \in {"gA", "gB"} |->
        CASE g = "gA" -> <<"o1", "gB">> [] OTHER -> <<"10.0.0.5/30">>],
     [g \in {"gA", "gB"} |->
        CASE g = "gA" -> <<"gB", "o5">> [] OTHER -> <<"gA", "bogus">>]}

\* The names handed to AddressLookup.resolve.
LookupNames ==
    {"gA", "gB", "o1", "o5", "10.0.0.5/30", "10.0.0.1", "bogus"}

\* AddressLookup.__init__: the dictionaries are built, the cache is empty.
InitLookup ==
    /\ mode = "lookup"
    /\ address_objects = LookupObjects
    /\ address_groups \in LookupGroups
    /\ cache = [single |-> << >>, whole |-> << >>]
    /\ returned = <<>>
    /\ ScenarioUnused
    /\ CallUnused

\* One call lookup.resolve(names), to its return or its ValueError.
LookupResolve(names) ==
    /\ mode = "lookup"
    /\ Len(returned) < MaxCalls
    /\ cache' = lookup_resolve(names, cache).cache
    /\ returned' = Append(returned,
                          [names |-> names,
                           ok |-> lookup_resolve(names, cache).ok,
                           res |-> lookup_resolve(names, cache).res])
    /\ UNCHANGED <<address_objects, address_groups, mode, scenarioVars,
                   callVars>>

NextLookup ==
    \E names \in SetOrders(LookupNames, MaxLookupNames) : LookupResolve(names)

SpecLookup == InitLookup /\ [][NextLookup]_vars

----------------------------------------------------------------------------
(* The membership graph of the address groups, for stating the claims.     *)

\* The latest resolve call and its outcome.
Last == returned[Len(returned)]

Members(n) ==
    IF n \in DOMAIN address_groups THEN Range(address_groups[n]) ELSE {}

RECURSIVE ReachFrom(_)
\* The names reachable from the names S by following group membership.
ReachFrom(S) ==
    LET next == S \cup UNION {Members(n) : n \in S}
    IN  IF next = S THEN S ELSE ReachFrom(next)

\* g lies on a membership cycle.
OnCycle(g) == g \in ReachFrom(Members(g))

CycleReachable(names) == \E g \in ReachFrom(Range(names)) : OnCycle(g)

\* A name that is no group, no object, not the wildcard and no literal.
Unresolvable(n) ==
    /\ n # AnyObj
    /\ n \notin DOMAIN address_groups
    /\ n \notin DOMAIN address_objects
    /\ AddressObjectIPNetwork(n, n) = None
    /\ AddressObjectIPRange(n, n) = None

UnknownReachable(names) ==
    \E n \in ReachFrom(Range(names)) : Unresolvable(n)

\* s lists the groups of one membership cycle, each a member of the one
\* before it and the first a member of the last.
IsCycle(s) ==
    /\ Len(s) > 0
    /\ \A i \in 1..Len(s) :
         s[(i % Len(s)) + 1] \in Members(s[i])

\* The message names every group of a cycle that the repeated name is on.
MessageNamesCycle(msg) ==
    \E s \in SetOrders(DOMAIN address_groups, Cardinality(DOMAIN address_groups)) :
        /\ IsCycle(s)
        /\ msg[Len(msg)] \in Range(s)
        /\ Range(s) \subseteq Range(msg)

RECURSIVE Occurrences(_)
\* How often an address object is reached from the name n of an acyclic
\* graph: once per path that leads to it.
Occurrences(n) ==
    IF n = AnyObj THEN 0
    ELSE IF n \in DOMAIN address_groups
    THEN LET ms == address_groups[n]
             sum[i \in 0..Len(ms)] ==
                 IF i = 0 THEN 0 ELSE sum[i - 1] + Occurrences(ms[i])
         IN  sum[Len(ms)]
    ELSE 1

\* The address objects reachable from names, when every leaf is a known
\* address object or the wildcard.
ReachableObjects(names) ==
    {address_objects[n] :
        n \in ReachFrom(Range(names)) \cap DOMAIN address_objects}

LeavesKnown(names) ==
    ReachFrom(Range(names)) \subseteq
        DOMAIN address_groups \cup DOMAIN address_objects \cup {AnyObj}

----------------------------------------------------------------------------
(* Claims about the Resolver, under SpecResolver.                          *)

\* C6 as stated: resolve on names from which a membership cycle is
\* reachable raises CircularDependencyError, and the message names every
\* group of the cycle.
C6_CycleAlwaysCircular ==
    (returned # <<>> /\ CycleReachable(Last.names)) =>
        /\ Last.kind = "CircularDependencyError"
        /\ MessageNamesCycle(Last.msg)

\* C6 amended: resolve on names from which a membership cycle is reachable
\* never returns; it raises CircularDependencyError unless an unresolvable
\* name is reachable too, in which case the set iteration order decides
\* between that error and the unknown-reference error; the message of the
\* CircularDependencyError names every group of the cycle it closed.
C6_CycleRaises ==
    (returned # <<>> /\ CycleReachable(Last.names)) =>
        /\ ~Last.ok
        /\ Last.kind \in {"CircularDependencyError", "UnknownReference"}
        /\ ~UnknownReachable(Last.names) =>
               Last.kind = "CircularDependencyError"
        /\ Last.kind = "CircularDependencyError" =>
               MessageNamesCycle(Last.msg)

\* A three-group cycle was detected and its message names the three groups.
C6_Witness ==
    /\ returned # <<>>
    /\ Last.names = <<"gA">>
    /\ address_groups["gA"] = <<"gB">>
    /\ address_groups["gB"] = <<"gC">>
    /\ address_groups["gC"] = <<"gA">>
    /\ Last.kind = "CircularDependencyError"
    /\ Range(Last.msg) = {"gA", "gB", "gC"}

\* C7: when no membership cycle is reachable from the names, resolve never
\* raises CircularDependencyError, however many acyclic paths lead to one
\* group; and when every reachable name resolves, the call returns a list
\* with one entry per path to an address object, so a shared group
\* contributes at each of its occurrences.
C7_DiamondNoCycleError ==
    (returned # <<>> /\ ~CycleReachable(Last.names)) =>
        /\ Last.kind # "CircularDependencyError"
        /\ ~UnknownReachable(Last.names) =>
               /\ Last.ok
               /\ LET ns == Last.names
                      sum[i \in 0..Len(ns)] ==
                          IF i = 0 THEN 0
                          ELSE sum[i - 1] + Occurrences(ns[i])
                  IN  Len(Last.res) = sum[Len(ns)]

\* gC is reached from gA directly and through gB, also on a second call,
\* and its object is returned twice.
C7_Witness ==
    /\ Len(returned) = 2
    /\ returned[1].names = <<"gB">>
    /\ Last.names = <<"gA">>
    /\ address_groups["gA"] = <<"gB", "gC">>
    /\ address_groups["gB"] = <<"gC">>
    /\ address_groups["gC"] = <<"o1">>
    /\ Last.ok
    /\ Last.res = <<address_objects["o1"], address_objects["o1"]>>

\* C8: for names from which no cycle is reachable and whose reachable
\* leaves are all known address objects (or the wildcard), resolve returns
\* a list whose elements are exactly the address objects reachable through
\* group membership; the wildcard contributes nothing, so only `any`, or no
\* name at all, gives the empty list.
C8_ResolveReachable ==
    (returned # <<>> /\ ~CycleReachable(Last.names)
                     /\ LeavesKnown(Last.names)) =>
        /\ Last.ok
        /\ Range(Last.res) = ReachableObjects(Last.names)
        /\ Range(Last.names) \subseteq {AnyObj} => Last.res = <<>>

\* A nested group resolved to its object, and the wildcard to nothing.
C8_Witness ==
    /\ Len(returned) = 2
    /\ returned[1].names = <<AnyObj>>
    /\ returned[1].ok
    /\ returned[1].res = <<>>
    /\ Last.names = <<"gA">>
    /\ address_groups["gA"] = <<"gB", "gC">>
    /\ address_groups["gB"] = <<"o1">>
    /\ address_groups["gC"] = <<>>
    /\ Last.res = <<address_objects["o1"]>>

\* C10: two resolve calls with the same names on one Resolver give the
\* same outcome (the same list, or the same kind of error), and after a
\* successful resolve of one group name the cache holds that name with the
\* list just returned.
C10_CacheConsistent ==
    /\ \A i, j \in 1..Len(returned) :
         (i < j /\ returned[i].names = returned[j].names) =>
             /\ returned[j].ok = returned[i].ok
             /\ returned[j].res = returned[i].res
             /\ returned[j].kind = returned[i].kind
    /\ (returned # <<>> /\ Last.ok /\ Len(Last.names) = 1
                        /\ Last.names[1] \in DOMAIN address_groups) =>
           /\ Last.names[1] \in DOMAIN cache
           /\ cache[Last.names[1]] = Last.res

\* A group of two members was resolved twice with the same list.
C10_Witness ==
    /\ Len(returned) = 2
    /\ returned[1].names = <<"gA">>
    /\ returned[2].names = <<"gA">>
    /\ returned[1].ok
    /\ Len(returned[2].res) = 2
    /\ cache["gA"] = returned[2].res

----------------------------------------------------------------------------
(* Claims about Shadowing / ShadowingByValue, under Spec.                  *)

\* analysis_results holds analyze(execute()): the latest analyze was given
\* the stored execution results.
AnalyzedExecution ==
    /\ execution_results # None
    /\ analysis_results # None
    /\ analyzed = execution_results

Findings == analysis_results[1]

\* Some active predicate raises for the pair.
Throws(rule, preceding_rule) ==
    \E k \in 1..Len(Checks(mode)) :
        CallCheck(Checks(mode)[k], rule, preceding_rule).raised

\* Every active predicate returns true for the pair.
AllTrue(rule, preceding_rule) ==
    \A k \in 1..Len(Checks(mode)) :
        /\ ~CallCheck(Checks(mode)[k], rule, preceding_rule).raised
        /\ CallCheck(Checks(mode)[k], rule, preceding_rule).value[1]

NoPairThrows ==
    \A i \in 1..Len(security_rules) : \A j \in 1..(i - 1) :
        ~Throws(security_rules[i], security_rules[j])

RECURSIVE Ascending(_)
\* The numbers of S in ascending order.
Ascending(S) ==
    IF S = {} THEN <<>>
    ELSE LET m == CHOOSE x \in S : \A y \in S : x <= y
         IN  <<m>> \o Ascending(S \ {m})

\* The rules at the positions S of the list, in list order.
RulesAtPositions(S) ==
    [k \in 1..Cardinality(S) |-> security_rules[Ascending(S)[k]]]

\* The findings in which the rule at position i is paired with the rules at
\* the positions Shadowers[i], for every i with Shadowers[i] not empty.
FindingsFor(Shadowers) ==
    LET shadowed == Ascending({i \in 1..Len(security_rules) : Shadowers[i] # {}})
    IN  [k \in 1..Len(shadowed) |->
            <<security_rules[shadowed[k]], RulesAtPositions(Shadowers[shadowed[k]])>>]

\* C1 as stated: a pair for which some active predicate raises is never
\* reported as a full shadower by analyze(execute()).
C1_ThrowingPairNotReported ==
    AnalyzedExecution =>
        \A f \in 1..Len(Findings) : \A k \in 1..Len(Findings[f][2]) :
            ~Throws(Findings[f][1], Findings[f][2][k])

\* C2: when names are unique and no predicate raises, analyze(execute())
\* is the list, in rule-list order, of the rules r that have a preceding
\* rule p with every active predicate true on (r, p), each paired with all
\* such p in rule-list order.
C2_FindingsAreFullShadowers ==
    (AnalyzedExecution /\ NoPairThrows) =>
        Findings = FindingsFor(
            [i \in 1..Len(security_rules) |->
                {j \in 1..(i - 1) :
                    AllTrue(security_rules[i], security_rules[j])}])

\* Three rules analysed: the third is shadowed by the first and the second,
\* the second by the first.
C2_Witness ==
    /\ AnalyzedExecution
    /\ NoPairThrows
    /\ Len(security_rules) = 3
    /\ Len(Findings) = 2
    /\ Findings[2][1] = security_rules[3]
    /\ Findings[2][2] = <<security_rules[1], security_rules[2]>>
    /\ Findings[1][2] = <<security_rules[1]>>

\* C3: the result of execute has one entry per rule, in list order; the
\* entry of the rule at position i has exactly the names of the rules
\* before it as keys, in list order: none for the first rule, never the
\* rule itself or a later rule.
C3_OnlyPrecedingCompared ==
    execution_results # None =>
        /\ DictKeys(execution_results[1]) =
               [i \in 1..Len(security_rules) |-> security_rules[i].name]
        /\ \A i \in 1..Len(security_rules) :
               DictKeys(execution_results[1][i][2]) =
                   [j \in 1..(i - 1) |-> security_rules[j].name]

C3_Witness ==
    /\ execution_results # None
    /\ Len(security_rules) = 3
    /\ execution_results[1][1][2] = <<>>
    /\ DictKeys(execution_results[1][3][2]) = <<"r2", "r3">>

\* C4: in the result of execute, the map of every pair holds exactly the
\* active predicates that did not raise, each under its own name with the
\* result it returned; a predicate that raised has no entry.
C4_RaisedPredicateOmitted ==
    execution_results # None =>
        \A i \in 1..Len(security_rules) : \A j \in 1..(i - 1) :
            LET recorded == execution_results[1][i][2][j][2] IN
            \A k \in 1..Len(Checks(mode)) :
                LET outcome == CallCheck(Checks(mode)[k], security_rules[i],
                                         security_rules[j])
                IN  /\ outcome.raised <=>
                           Checks(mode)[k] \notin Range(DictKeys(recorded))
                    /\ ~outcome.raised =>
                           DictGet(recorded, Checks(mode)[k]) = outcome.value

\* The by-IP source check raised for the second rule against the first;
\* the other six predicates are recorded for that pair, and all seven for
\* the pair of the third rule and the first.
C4_Witness ==
    /\ execution_results # None
    /\ Len(security_rules) = 3
    /\ check_source_addresses_by_ip(security_rules[2], security_rules[1]).raised
    /\ Len(execution_results[1][2][2][1][2]) = 6
    /\ Len(execution_results[1][3][2][1][2]) = 7

\* The rules of the list agree in zones, addresses, applications and
\* services.
SameButAction ==
    \A i, j \in 1..Len(security_rules) :
        /\ security_rules[i].source_zones = security_rules[j].source_zones
        /\ security_rules[i].destination_zones
               = security_rules[j].destination_zones
        /\ security_rules[i].source_addresses
               = security_rules[j].source_addresses
        /\ security_rules[i].destination_addresses
               = security_rules[j].destination_addresses
        /\ security_rules[i].applications = security_rules[j].applications
        /\ security_rules[i].services = security_rules[j].services

\* C5: for rules that differ in action only, analyze(execute()) pairs each
\* rule with exactly the earlier rules of its own action, whatever the
\* order of the list.
C5_OrderAndAction ==
    (AnalyzedExecution /\ SameButAction) =>
        Findings = FindingsFor(
            [i \in 1..Len(security_rules) |->
                {j \in 1..(i - 1) :
                    security_rules[j].action = security_rules[i].action}])

\* [allow, deny, allow]: the third rule is shadowed by the first only.
C5_Witness ==
    /\ AnalyzedExecution
    /\ SameButAction
    /\ Len(security_rules) = 3
    /\ security_rules[1].action = "allow"
    /\ security_rules[2].action = "deny"
    /\ security_rules[3].action = "allow"
    /\ Findings = <<<<security_rules[3], <<security_rules[1]>>>>>>

\* The address sets of the input rules that resolve_rule resolves.
ResolvedSets ==
    {a \in {input_rules[i].source_addresses : i \in 1..Len(input_rules)}
           \cup {input_rules[i].destination_addresses :
                    i \in 1..Len(input_rules)} : NeedsResolving(a)}

NoResults ==
    /\ pc = "failed"
    /\ execution_results = None
    /\ analysis_results = None

\* C9 as stated: an unresolvable name among the addresses to resolve, at
\* any nesting depth, makes the construction of ShadowingByValue fail with
\* the unknown-reference error, and no result is produced.
C9_UnknownAlwaysUnknownError ==
    (mode = "advanced" /\ pc # "loaded"
       /\ \E a \in ResolvedSets : \E n \in ReachFrom(a) : Unresolvable(n)) =>
        /\ NoResults
        /\ construct_error[1].kind = "UnknownReference"

\* C9 amended: an unresolvable name among the addresses to resolve, at any
\* nesting depth, makes resolve fail and the error leaves the construction
\* of ShadowingByValue, so that no execute or analyze result exists; the
\* error is the unknown-reference error naming an unresolvable name unless
\* a membership cycle is reachable too, in which case it may be the
\* CircularDependencyError instead.
C9_UnknownPropagates ==
    (mode = "advanced" /\ pc # "loaded"
       /\ \E a \in ResolvedSets : \E n \in ReachFrom(a) : Unresolvable(n)) =>
        /\ NoResults
        /\ construct_error # None
        /\ construct_error[1].kind
               \in {"UnknownReference", "CircularDependencyError"}
        /\ (\A a \in ResolvedSets : \A g \in ReachFrom(a) : ~OnCycle(g)) =>
               /\ construct_error[1].kind = "UnknownReference"
               /\ Unresolvable(construct_error[1].name)

\* The unknown name lies two groups below the name the rule gives.
C9_Witness ==
    /\ mode = "advanced"
    /\ pc = "failed"
    /\ Len(input_rules) = 2
    /\ input_rules[1].source_addresses = {"o1"}
    /\ input_rules[2].source_addresses = {"gA"}
    /\ address_groups["gA"] = <<"gC">>
    /\ address_groups["gC"] = <<"gB", "bogus">>
    /\ construct_error = Some([kind |-> "UnknownReference", name |-> "bogus"])

----------------------------------------------------------------------------
(* Claims about the predicates, under SpecChecks.                          *)

\* The scenario over two rules was executed.
PairChecked == execution_results # None /\ Len(security_rules) = 2

\* The result map of the pair (second rule, first rule).
PairResult == execution_results[1][2][2][1][2]

Recorded(check) == check \in Range(DictKeys(PairResult))

\* The covered flag recorded for the predicate of the given name.
Covered(check) == DictGet(PairResult, check)[1]

\* The canonical coverage rule of the specification on two sets.
Canonical(rule_set, preceding_set) ==
    \/ rule_set = preceding_set
    \/ AnyObj \in preceding_set
    \/ rule_set \subseteq preceding_set

\* C11 as stated: check_source_zone returns covered = true iff the rule's
\* source zones equal the preceding rule's, or the preceding rule's contain
\* `any`, or the rule's are a subset of the preceding rule's.
C11_SourceZoneCanonical ==
    PairChecked =>
        Covered("check_source_zone") =
            Canonical(security_rules[2].source_zones,
                      security_rules[1].source_zones)

Broader(rule_set, preceding_set) ==
    AnyObj \in rule_set /\ AnyObj \notin preceding_set

\* C13 as stated: each of the zone, name-based address and application
\* predicates returns covered = false whenever the rule's set holds `any`
\* and the preceding rule's set does not.
C13_BroaderNeverCovered ==
    PairChecked =>
        /\ Broader(security_rules[2].source_zones,
                   security_rules[1].source_zones) =>
               ~Covered("check_source_zone")
        /\ Broader(security_rules[2].destination_zones,
                   security_rules[1].destination_zones) =>
               ~Covered("check_destination_zone")
        /\ Broader(security_rules[2].applications,
                   security_rules[1].applications) =>
               ~Covered("check_application")
        /\ (mode = "simple" /\ Broader(security_rules[2].source_addresses,
                                       security_rules[1].source_addresses)) =>
               ~Covered("check_source_address")
        /\ (mode = "simple"
              /\ Broader(security_rules[2].destination_addresses,
                         security_rules[1].destination_addresses)) =>
               ~Covered("check_destination_address")

\* C14: check_services returns covered = true iff every service of the
\* rule is, as the same string, a service of the preceding rule; so `any`
\* or `application-default` among the preceding rule's services covers
\* nothing but itself, and a rule without services is always covered.
C14_ServicesByMembership ==
    PairChecked =>
        /\ Covered("check_services") =
               (\A s \in security_rules[2].services :
                    s \in security_rules[1].services)
        /\ security_rules[2].services = {} => Covered("check_services")
        /\ (security_rules[2].services \cap {AnyObj, AppDefault} = {}
              /\ security_rules[1].services \subseteq {AnyObj, AppDefault}
              /\ security_rules[2].services # {}) =>
               ~Covered("check_services")

\* The preceding rule's services are `any` and `application-default`, the
\* rule's service is a name: not covered.
C14_Witness ==
    /\ PairChecked
    /\ security_rules[2].services = {"a"}
    /\ security_rules[1].services = {AnyObj, AppDefault}
    /\ ~Covered("check_services")

\* The resolved list of a rule as a sequence: empty when there is none.
ResolvedList(resolved) == IF resolved = None THEN <<>> ELSE resolved[1]

\* The address objects of a list that are no FQDN.
NonFQDN(objs) == {objs[i] : i \in {k \in 1..Len(objs) : objs[k].type # "FQDN"}}

\* Every non-FQDN object of the rule's list is covered by one non-FQDN
\* object of the preceding rule's list.
CoveredByIP(resolved, preceding_resolved) ==
    \A o \in NonFQDN(ResolvedList(resolved)) :
        \E q \in NonFQDN(ResolvedList(preceding_resolved)) :
            is_covered_by(o, q)

C16_CategoryChecked ==
    (AnalyzedExecution /\ Len(security_rules) = 2) =>
        (~Canonical(security_rules[2].category, security_rules[1].category)
            => Findings = <<>>)

----------------------------------------------------------------------------
(* Claims about the exclusion of predicates, under SpecEnhanced.           *)

EnhancedConstructed == mode = "enhanced" /\ call # None

EnhancedExecuted == EnhancedConstructed /\ call_result # None

\* keyword is a run of consecutive characters of name (possibly none).
Substring(keyword, name) ==
    \E a \in 0..Len(name) :
        /\ a + Len(keyword) <= Len(name)
        /\ \A i \in 1..Len(keyword) : name[a + i] = keyword[i]

\* The predicates none of whose names has a keyword of the list as a
\* substring.
NotExcluded(exclude_checks) ==
    {c \in Range(EnhancedChecks) :
        \A k \in 1..Len(exclude_checks) :
            ~Substring(Chars(exclude_checks[k]), Chars(c))}

PositionIn(seq, x) == CHOOSE i \in 1..Len(seq) : seq[i] = x

\* C17: the active predicates are exactly the predicates whose name
\* contains none of the keywords of the exclusion list as a substring, in
\* their original relative order; the result map of a pair has an entry
\* for exactly the active predicates, and the verdict on the pair is that
\* all active predicates returned true, whatever the excluded ones do.
C17_ExclusionBySubstring ==
    /\ EnhancedConstructed =>
         /\ Range(call[1].checks) = NotExcluded(call[1].exclude_checks)
         /\ \A i, j \in 1..Len(call[1].checks) :
              i < j => PositionIn(EnhancedChecks, call[1].checks[i])
                         < PositionIn(EnhancedChecks, call[1].checks[j])
    /\ EnhancedExecuted =>
         /\ {call_result[1].check_results[k][1] :
               k \in 1..Len(call_result[1].check_results)}
              = NotExcluded(call[1].exclude_checks)
         /\ call_result[1].all_checks_passed
              <=> \A c \in NotExcluded(call[1].exclude_checks) :
                     call_result[1].outcomes[c] = "true"

\* Two predicates are excluded by a keyword inside their names, one of
\* them fails, and the pair is still a shadowing pair.
C17_Witness ==
    /\ EnhancedExecuted
    /\ call[1].exclude_checks = <<"zone">>
    /\ call[1].checks = SubSeq(EnhancedChecks, 3, 7)
    /\ call_result[1].outcomes["check_source_zone"] = "false"
    /\ call_result[1].outcomes["check_destination_zone"] = "raise"
    /\ call_result[1].all_checks_passed

----------------------------------------------------------------------------
(* Claims about the address objects, under SpecObjects.                    *)

ObjectCall(op) == mode = "objects" /\ call # None /\ call[1].op = op

RangeConstructed ==
    /\ ObjectCall("construct")
    /\ call[1].input.class = "AddressObjectIPRange"

RangeAddresses == {1, 2}

\* The text "low-high" of two addresses.
DashedText(lo, hi) ==
    CASE lo = 1 /\ hi = 1 -> "10.0.0.1-10.0.0.1"
      [] lo = 1 /\ hi = 2 -> "10.0.0.1-10.0.0.2"
      [] lo = 2 /\ hi = 1 -> "10.0.0.2-10.0.0.1"
      [] OTHER -> "10.0.0.2-10.0.0.2"

\* An address as an element of a tuple: its text, or the IPv4Address.
ElementForms(a) ==
    {[type |-> "str", text |-> AddressText(a), address |-> 0],
     [type |-> "IPv4Address", text |-> "", address |-> a]}

\* The string and the tuples that stand for the pair (lo, hi).
PairForms(lo, hi) ==
    {[kind |-> "str", text |-> DashedText(lo, hi), elements |-> <<>>]}
    \cup {[kind |-> "tuple", text |-> "", elements |-> <<x, y>>] :
            x \in ElementForms(lo), y \in ElementForms(hi)}

\* C18: every constructed AddressObjectIPRange has low <= high; for every
\* form of a pair (low, high), string or tuple of strings or of
\* IPv4Address, construction yields no object when low > high and the
\* range (low, high) otherwise, low = high included.
C18_RangeOrdered ==
    RangeConstructed =>
        /\ call_result[1].object # None =>
             /\ call_result[1].object[1].type = "IPRange"
             /\ call_result[1].object[1].lo <= call_result[1].object[1].hi
        /\ \A lo \in RangeAddresses, hi \in RangeAddresses :
             call[1].input.value \in PairForms(lo, hi) =>
                 IF lo > hi THEN call_result[1].object = None
                 ELSE /\ call_result[1].object # None
                      /\ call_result[1].object[1].lo = lo
                      /\ call_result[1].object[1].hi = hi

\* A tuple of an IPv4Address and a string with low = high is accepted.
C18_Witness ==
    /\ RangeConstructed
    /\ call[1].input.value \in PairForms(2, 2)
    /\ call[1].input.value.kind = "tuple"
    /\ call[1].input.value.elements[1].type = "IPv4Address"
    /\ call[1].input.value.elements[2].type = "str"
    /\ call_result[1].object # None
    /\ call_result[1].object[1].lo = 2
    /\ call_result[1].object[1].hi = 2

\* The two texts name the same host, letter case aside.
SameHost(a, b) == a = b \/ {a, b} = {"example.com", "Example.COM"}

\* C19: an FQDN object is covered by another object exactly when that one
\* is an FQDN of the same host name, letter case aside; an FQDN is never
\* covered by a network or a range, nor a network or a range by an FQDN.
C19_FQDNOnlyByFQDN ==
    ObjectCall("is_covered_by") =>
        /\ call[1].self.type = "FQDN" =>
             (call_result[1].returned
                <=> /\ call[1].other.type = "FQDN"
                    /\ SameHost(call[1].self_input.value.text,
                                call[1].other_input.value.text))
        /\ (call[1].self.type = "FQDN") # (call[1].other.type = "FQDN") =>
             ~call_result[1].returned

\* An FQDN given in capitals is covered by the same name in small letters.
C19_Witness ==
    /\ ObjectCall("is_covered_by")
    /\ call[1].self_input.class = "AddressObjectFQDN"
    /\ call[1].self_input.value.text = "Example.COM"
    /\ call[1].other_input.class = "AddressObjectFQDN"
    /\ call[1].other_input.value.text = "example.com"
    /\ call_result[1].returned

----------------------------------------------------------------------------
(* Claims about the order of execute and analyze, under Spec.              *)

\* What execute and analyze store is computed from the rules and from the
\* argument of the latest call alone.
LatestCallOnly ==
    [][/\ execution_results' # execution_results =>
            execution_results' = Some(execute(Checks(mode), security_rules))
       /\ analysis_results' # analysis_results =>
            analysis_results' = Some(analyze(rules_by_name, analyzed'[1]))]_vars

\* C20 as stated: in every reachable state analysis_results is set only if
\* execution_results is set, analyze taking no effect before an execute.
C20_AnalyzeOnlyAfterExecute ==
    analysis_results # None => execution_results # None

----------------------------------------------------------------------------
(* Claims about the evaluation of the predicates on a pair.                *)

\* C21 as stated: on a pair of rules no predicate is invoked after the first
\* one that returned false, so an entry recorded as false is the last entry
\* of the pair's result map.
C21_ShortCircuit ==
    PairChecked =>
        \A i \in 1..Len(PairResult) :
            ~PairResult[i][2][1] => i = Len(PairResult)

----------------------------------------------------------------------------
(* Claims about the message of CircularDependencyError, under              *)
(* SpecResolver.                                                           *)

\* s is a chain of membership that starts at one of names: every name of s
\* is a member of the one before it.
TraversalChain(s, names) ==
    /\ Len(s) > 0
    /\ s[1] \in Range(names)
    /\ \A i \in 1..(Len(s) - 1) : s[i + 1] \in Members(s[i])

\* C22 as stated: the message of a CircularDependencyError lists the
\* active resolution path in traversal order, from the name handed to
\* resolve down the memberships, followed by the repeated name, which is
\* a member of the last name of the path and already on the path.
C22_PathInTraversalOrder ==
    (returned # <<>> /\ Last.kind = "CircularDependencyError") =>
        /\ Len(Last.msg) >= 2
        /\ TraversalChain(SubSeq(Last.msg, 1, Len(Last.msg) - 1), Last.names)
        /\ Last.msg[Len(Last.msg)] \in Members(Last.msg[Len(Last.msg) - 1])
        /\ \E i \in 1..(Len(Last.msg) - 1) :
             Last.msg[i] = Last.msg[Len(Last.msg)]

----------------------------------------------------------------------------
(* Claims about the termination of Resolver.resolve, under SpecSteps.      *)

\* The number of frames of _resolve_name never exceeds the number of
\* group names plus one.
DepthBounded ==
    (mode = "steps" /\ call # None) =>
        Depth <= Cardinality(DOMAIN address_groups) + 1

\* A call that ended step by step ended as the call computed at once does.
StepsAgree ==
    (mode = "steps" /\ call_result # None) =>
        /\ call_result[1].ok = resolve(call[1].names, call[1].cache0).ok
        /\ call_result[1].res = resolve(call[1].names, call[1].cache0).res
        /\ call_result[1].kind = resolve(call[1].names, call[1].cache0).kind
        /\ cache = resolve(call[1].names, call[1].cache0).cache

\* C23: every call of resolve, whatever self-references and cycles the
\* groups hold, eventually returns a list or raises an error, and the
\* recursion of _resolve_name is never deeper than the number of group
\* names plus one.
C23_ResolveTerminates ==
    /\ []DepthBounded
    /\ (mode = "steps" /\ call # None) ~> (call_result # None)

\* The recursion is as deep as the bound allows: three groups on a cycle
\* and the frame that finds the first of them on the path.
C23_Witness ==
    /\ mode = "steps"
    /\ call # None
    /\ Depth = Cardinality(DOMAIN address_groups) + 1
    /\ OnPath(Top.name, Top.path)
    /\ Top.path = DOMAIN address_groups

----------------------------------------------------------------------------
(* Claims about the transparency of the cache, under SpecResolver.         *)

RECURSIVE Plain(_, _)
RECURSIVE PlainMembers(_, _, _, _)
\* A resolution of name without any cache, tracking the path: the list, or
\* the kind of the first error met.
Plain(name, path) ==
    IF name = AnyObj THEN [ok |-> TRUE, res |-> <<>>, kind |-> "return"]
    ELSE IF name \in path
    THEN [ok |-> FALSE, res |-> <<>>, kind |-> "CircularDependencyError"]
    ELSE IF name \in DOMAIN address_groups
    THEN PlainMembers(address_groups[name], 1, path \cup {name}, <<>>)
    ELSE IF name \in DOMAIN address_objects
    THEN [ok |-> TRUE, res |-> <<address_objects[name]>>, kind |-> "return"]
    ELSE IF AddressObjectIPNetwork(name, name) # None
    THEN [ok |-> TRUE, res |-> AddressObjectIPNetwork(name, name),
          kind |-> "return"]
    ELSE IF AddressObjectIPRange(name, name) # None
    THEN [ok |-> TRUE, res |-> AddressObjectIPRange(name, name),
          kind |-> "return"]
    ELSE [ok |-> FALSE, res |-> <<>>, kind |-> "UnknownReference"]

\* The members from the i-th on, acc being the list of those before.
PlainMembers(members, i, path, acc) ==
    IF i > Len(members) THEN [ok |-> TRUE, res |-> acc, kind |-> "return"]
    ELSE IF Plain(members[i], path).ok
    THEN PlainMembers(members, i + 1, path,
                      acc \o Plain(members[i], path).res)
    ELSE Plain(members[i], path)

\* What a new Resolver gives for names.
PlainResolve(names) == PlainMembers(names, 1, {}, <<>>)

\* Every entry of the cache is the list a resolution without cache gives
\* for its name, which therefore does not fail.
CacheIsPlain ==
    \A n \in DOMAIN cache :
        /\ Plain(n, {}).ok
        /\ cache[n] = Plain(n, {}).res

\* Every call made so far ended as it does on a new Resolver.
CallsArePlain ==
    \A k \in 1..Len(returned) :
        /\ returned[k].ok = PlainResolve(returned[k].names).ok
        /\ returned[k].res = PlainResolve(returned[k].names).res
        /\ returned[k].kind = PlainResolve(returned[k].names).kind

\* An entry of the cache stays as it is.
CacheKept ==
    \A n \in DOMAIN cache : n \in DOMAIN cache' /\ cache'[n] = cache[n]

\* C24: after any sequence of resolve calls, every cache entry is what a
\* resolution without cache returns for its name, so that no name whose
\* resolution fails has an entry; an entry once written is never changed
\* or removed; and every call returns the list, or raises the kind of
\* error, that a new Resolver gives.
C24_CacheTransparent ==
    /\ [](mode = "resolver" => CacheIsPlain /\ CallsArePlain)
    /\ [][CacheKept]_vars

\* A group that fails after one of its members resolved: the member is
\* cached, the group is not, and a second call resolves the member from
\* the cache.
C24_Witness ==
    /\ mode = "resolver"
    /\ Len(returned) = 2
    /\ ~returned[1].ok
    /\ Len(returned[1].names) = 1
    /\ returned[1].names[1] \in DOMAIN address_groups
    /\ returned[1].names[1] \notin DOMAIN cache
    /\ returned[2].ok
    /\ Len(returned[2].names) = 1
    /\ returned[2].names[1] \in Members(returned[1].names[1])
    /\ returned[2].names[1] \in DOMAIN address_groups
    /\ returned[2].res # <<>>

----------------------------------------------------------------------------
(* Claims about the rules of ShadowingByValue, under SpecChecks.           *)

\* ShadowingByValue was constructed over two rules.
ResolvedPair ==
    /\ mode = "advanced"
    /\ pc = "constructed"
    /\ construct_error = None
    /\ Len(security_rules) = 2

\* C25 as stated: on every pair of rules that resolve_rule produced, the
\* rules with an empty address set or with `any` included, the two by-IP
\* predicates return a result and do not raise.
C25_ByIPNeverRaises ==
    ResolvedPair =>
        \A i, j \in 1..2 :
            /\ ~check_source_addresses_by_ip(security_rules[i],
                                             security_rules[j]).raised
            /\ ~check_destination_addresses_by_ip(security_rules[i],
                                                  security_rules[j]).raised

----------------------------------------------------------------------------
(* Claims about a pair without recorded results, under SpecEnhanced.       *)

\* C26 as stated: a pair of rules whose recorded result map is empty is
\* not taken by analyze for a full shadower.
C26_EmptyMapNotReported ==
    (EnhancedExecuted /\ call_result[1].check_results = <<>>) =>
        ~call_result[1].all_checks_passed

----------------------------------------------------------------------------
(* Claims about coverage between networks and ranges, under SpecObjects.   *)

IPKinds == {"AddressObjectIPNetwork", "AddressObjectIPRange"}

\* The addresses that a network or range given as input stands for.
IntervalOf(input) ==
    IF input.class = "AddressObjectIPNetwork"
    THEN CASE input.value.text \in {"10.0.0.1", "10.0.0.1/32"} -> {1}
           [] input.value.text = "10.0.0.1/31" -> 0..1
           [] input.value.text = "10.0.0.1/30" -> 0..3
           [] input.value.text = "10.0.0.5/30" -> 4..7
           [] OTHER -> {}
    ELSE UNION {IF input.value \in PairForms(lo, hi) THEN lo..hi ELSE {} :
                  lo \in RangeAddresses, hi \in RangeAddresses}

\* The inputs from which a network or a range is constructed.
IPInputs ==
    {input \in ObjectInputs :
        input.class \in IPKinds /\ Construct(input) # None}

\* C27: for a and b each a network or a range, a.is_covered_by(b) is true
\* exactly when the addresses of a are among the addresses of b; hence
\* every such object is covered by itself, and what covers b covers a
\* whenever b covers a.
C27_CoveredIsContainment ==
    (/\ ObjectCall("is_covered_by")
     /\ call[1].self_input.class \in IPKinds
     /\ call[1].other_input.class \in IPKinds) =>
        /\ call_result[1].returned
             <=> IntervalOf(call[1].self_input)
                    \subseteq IntervalOf(call[1].other_input)
        /\ is_covered_by(call[1].self, call[1].self)
        /\ call_result[1].returned =>
             \A c \in IPInputs :
                 is_covered_by(call[1].other, Construct(c)[1]) =>
                     is_covered_by(call[1].self, Construct(c)[1])

\* A range is covered by a network given with host bits set, and does not
\* cover it.
C27_Witness ==
    /\ ObjectCall("is_covered_by")
    /\ call[1].self_input.class = "AddressObjectIPRange"
    /\ call[1].self_input.value.text = "10.0.0.1-10.0.0.2"
    /\ call[1].other_input.class = "AddressObjectIPNetwork"
    /\ call[1].other_input.value.text = "10.0.0.1/30"
    /\ call_result[1].returned
    /\ ~is_covered_by(call[1].other, call[1].self)

\* The fields that a SecurityRule and its AdvancedSecurityRule share.
RuleFields == {"name", "action"} \cup SetFields

\* C28: resolve_rules keeps the rule list: as many rules, in the same
\* order of names, each with the action, zones, address names,
\* applications, services and category of its input rule; and the rules
\* handed to the scenario stay as they were.
C28_ResolutionKeepsRules ==
    /\ []((mode = "advanced" /\ pc = "constructed") =>
            /\ Len(security_rules) = Len(input_rules)
            /\ \A i \in 1..Len(input_rules) : \A f \in RuleFields :
                 security_rules[i][f] = input_rules[i][f])
    /\ [][input_rules' = input_rules]_vars

\* Two rules were resolved, the second with a group among its source
\* addresses and a list of resolved objects.
C28_Witness ==
    /\ ResolvedPair
    /\ <<security_rules[1].name, security_rules[2].name>> = <<"r1", "r2">>
    /\ "gA" \in security_rules[2].source_addresses
    /\ security_rules[2].resolved_source_addresses # None
    /\ security_rules[1].source_addresses = {}
    /\ security_rules[1].resolved_source_addresses = None

----------------------------------------------------------------------------
(* Claims about the unified Scenario, under SpecUnified.                   *)

\* C29 as stated: whenever _analysis is set it is analyze of the _results
\* now stored, so that the data for display and for export is never an
\* analysis of older results.
C29_AnalysisOfStoredResults ==
    (mode = "unified" /\ call[1].analysis # None) =>
        /\ call[1].results # None
        /\ call[1].analysis = Some(Analysis(call[1].results[1]))
        /\ (call_result # None
              /\ call_result[1].op \in {"get_data_for_display",
                                        "get_data_for_export"}) =>
               call_result[1].value = Some(Analysis(call[1].results[1]))

----------------------------------------------------------------------------
(* Claims about the legacy resolver, under SpecLookup.                     *)

\* C30 as stated: on an unchanged AddressLookup two calls of resolve with
\* the same set of names return equal sets, and each set holds IPv4
\* networks only, a name served from the cache included.
C30_LookupCacheConsistent ==
    mode = "lookup" =>
        /\ \A i, j \in 1..Len(returned) :
             (/\ i < j
              /\ Range(returned[i].names) = Range(returned[j].names)
              /\ returned[i].ok) =>
                 /\ returned[j].ok
                 /\ returned[j].res = returned[i].res
        /\ \A i \in 1..Len(returned) : \A x \in returned[i].res :
             x[1] = "IPv4Network"

====
